---- MODULE Spec2Model ----
(***************************************************************************)
(* Model of the eox_nelp programs API (programs/api/v1): the program       *)
(* metadata accessor over the course content store, the date and duration  *)
(* converters, the program lookup assembler, the metadata and              *)
(* program-lookup endpoints, and the external certificate record of        *)
(* signals/utils.py.                                                       *)
(*                                                                         *)
(* Python values are tagged records so that values of different Python     *)
(* types can be compared: None, int, str (a sequence of one-character      *)
(* strings) and dict (a total function over a fixed key universe in which  *)
(* a missing key is marked Absent).                                        *)
(***************************************************************************)
EXTENDS Integers, Sequences, FiniteSets, TLC

VARIABLES
    other_course_settings, \* content store: course id -> persisted other_course_settings
    pc,                    \* per worker: position inside update_program_metadata
    call,                  \* per worker: arguments of the running update_program_metadata
    course_block,          \* per worker: the course block loaded by store.get_course
    update_item_calls,     \* every store.update_item(course_block, user_id) made so far
    returned,              \* update_program_metadata calls that returned, in order, each
                           \* with whether another call was running when it persisted
    get_ret,               \* the last get_program_metadata call and what it returned
    time_str,              \* argument of hms_to_int
    hms_out,               \* outcome of the hms_to_int call
    date_string,           \* argument of convert_to_isoformat
    iso_out,               \* outcome of the convert_to_isoformat call
    course_api_data,       \* argument of get_program_lookup_representation
    lookup_out,            \* outcome of the get_program_lookup_representation call
    FEATURES,              \* settings.FEATURES.get("ENABLE_OTHER_COURSE_SETTINGS")
    post_count,            \* POST requests served by the metadata endpoint so far
    meta_request,          \* the last request to /metadata/{course_id}
    meta_response,         \* its response, with the store calls the handler made
    platform,              \* host platform data the program-lookup endpoint queries
    list_request,          \* the request to /program-lookup
    list_response,         \* its response, with the queries the view made
    certificate_settings,  \* settings.EXTERNAL_CERTIFICATES_GROUP_CODES and the users table
    certificate_event,     \* arguments of _generate_external_certificate_data
    certificate_out,       \* outcome of the _generate_external_certificate_data call
    site_domain,           \* site.domain of the site given to generate_slug_for_site
    slug_suffix,           \* slug_suffix of the template generate_slug_for_site is called on
    slug_out,              \* outcome of the generate_slug_for_site call
    saml_db,               \* the template row, its sites relation, the SAMLConfiguration
                           \* and SAMLProviderConfig tables, and the ORM calls of the
                           \* last operation on the template
    saml_op,               \* the last operation on the template and its arguments
    saml_ops,              \* operations on the template so far
    site_configuration,    \* configuration_helpers values and the request language
    attribute,             \* argument of form_field_getattr_patch
    patch_out,             \* outcome of the form_field_getattr_patch call
    field_created,         \* the handler call: the is_field_required given to it and
                           \* the field it created
    legacy_frontend,       \* settings.USE_LEARNING_LEGACY_FRONTEND, Absent when not defined
    legacy_frontend_before, \* its state before the first async_post task started
    task_pc,               \* per async_post task: position inside the task
    existing_legacy_frontend_setting \* per task: the local variable of that name

vars == <<other_course_settings, pc, call, course_block, update_item_calls, returned,
          get_ret, time_str, hms_out, date_string, iso_out, course_api_data, lookup_out,
          FEATURES, post_count, meta_request, meta_response, platform, list_request,
          list_response, certificate_settings, certificate_event, certificate_out,
          site_domain, slug_suffix, slug_out, saml_db, saml_op, saml_ops,
          site_configuration, attribute, patch_out, field_created,
          legacy_frontend, legacy_frontend_before, task_pc,
          existing_legacy_frontend_setting>>

storeVars == <<other_course_settings, pc, call, course_block, update_item_calls,
               returned, get_ret>>
hmsVars == <<time_str, hms_out>>
isoVars == <<date_string, iso_out>>
lookupVars == <<course_api_data, lookup_out>>
metaVars == <<FEATURES, post_count, meta_request, meta_response>>
listVars == <<platform, list_request, list_response>>
certVars == <<certificate_settings, certificate_event, certificate_out>>
slugVars == <<site_domain, slug_suffix, slug_out>>
samlVars == <<saml_db, saml_op, saml_ops>>
patchVars == <<site_configuration, attribute, patch_out, field_created>>
taskVars == <<legacy_frontend, legacy_frontend_before, task_pc,
              existing_legacy_frontend_setting>>
extVars == <<slugVars, samlVars, patchVars, taskVars>>
viewVars == <<metaVars, listVars, certVars, extVars>>

----------------------------------------------------------------------------
(* Python values *)

Absent == [t |-> "absent"]
None == [t |-> "None"]
PyInt(n) == [t |-> "int", i |-> n]
PyStr(cs) == [t |-> "str", s |-> cs]
PyDict(f) == [t |-> "dict", d |-> f]
PyBool(b) == [t |-> "bool", b |-> b]

\* dict.get(key, default)
DictGet(f, key, default) == IF f[key] = Absent THEN default ELSE f[key]

\* Python truthiness of the values the code tests with `not x` / `x or y` / `if x`
Truthy(v) ==
    CASE v.t = "None" -> FALSE
      [] v.t = "absent" -> FALSE
      [] v.t = "int" -> v.i # 0
      [] v.t = "str" -> v.s # <<>>
      [] v.t = "dict" -> \E k \in DOMAIN v.d : v.d[k] # Absent
      [] v.t = "bool" -> v.b

\* Outcome of a call: the value returned, what was logged, which exception escaped
Returns(v, logged) == [ret |-> v, logged |-> logged, raised |-> "none"]
Raises(exc, logged) == [ret |-> Absent, logged |-> logged, raised |-> exc]
NotCalled == [ret |-> Absent, logged |-> "none", raised |-> "not_called"]
NoLookup == [out |-> [ret |-> Absent, logged |-> <<>>, raised |-> "not_called"],
             hijri_calls |-> {}]

----------------------------------------------------------------------------
(* Program metadata accessor: the content store *)

MetaKeys == {"program_code", "type_of_activity", "mandatory", "program_approve", "trainer_type"}
SettingsKeys == {"program_metadata_v1", "other_setting"}

EmptyMeta == [k \in MetaKeys |-> Absent]
EmptySettings == [k \in SettingsKeys |-> Absent]

Meta(code, activity, mandatory, approve) ==
    [k \in MetaKeys |->
        CASE k = "program_code" -> code
          [] k = "type_of_activity" -> activity
          [] k = "mandatory" -> mandatory
          [] k = "program_approve" -> approve
          [] OTHER -> Absent]

CourseIds == {<<"c", "1">>, <<"c", "2">>}
UserIds == {7, 8}
Workers == {"w1", "w2"}

\* program_data arguments: the empty mapping, two mappings with different key
\* sets (so that a merge or a field-wise mix is visible); ProgramDataC is a
\* full record a course may already hold
ProgramDataA == Meta(PyStr(<<"P", "1">>), Absent, PyStr(<<"0", "1">>), Absent)
ProgramDataB == Meta(PyStr(<<"P", "2">>), PyInt(165), Absent, Absent)
ProgramDataC == Meta(PyStr(<<"P", "3">>), PyInt(1), PyStr(<<"0", "0">>), PyStr(<<"0", "1">>))
ProgramDataSet == {EmptyMeta, ProgramDataA, ProgramDataB}

MaxCalls == 2

Settings(meta, other) ==
    [k \in SettingsKeys |-> IF k = "program_metadata_v1" THEN meta ELSE other]

\* other_course_settings as a course can hold it before any call
InitialSettings ==
    { Settings(Absent, Absent),
      Settings(Absent, PyStr(<<"x">>)),
      Settings(PyDict(ProgramDataC), PyStr(<<"x">>)) }

NoBlock == [course_id |-> <<>>, other_course_settings |-> EmptySettings]
NoCall == [course_id |-> <<>>, program_data |-> EmptyMeta, user_id |-> 0]
NoGet == [course_id |-> <<>>, out |-> NotCalled, stored |-> Absent]

\* utils.get_program_metadata: the value of the expression it returns, on the
\* course block the store returns for course_id
get_program_metadata_none_default(settings) ==
    DictGet(settings, "program_metadata_v1", None)

get_program_metadata(settings) ==
    DictGet(settings, "program_metadata_v1", PyDict(EmptyMeta))

\* get_program_metadata(course_id), one read of the store
GetProgramMetadata(c) ==
    /\ get_ret' = [course_id |-> c,
                   out |-> Returns(get_program_metadata(other_course_settings[c]), "none"),
                   stored |-> other_course_settings[c]["program_metadata_v1"]]
    /\ UNCHANGED <<other_course_settings, pc, call, course_block, update_item_calls, returned>>

\* update_program_metadata lines 47-49: store.get_course(course_key)
UpdateLoad(w, c, d, u) ==
    /\ pc[w] = "idle"
    /\ Len(update_item_calls) + Cardinality({x \in Workers : pc[x] # "idle"}) < MaxCalls
    /\ call' = [call EXCEPT ![w] = [course_id |-> c, program_data |-> d, user_id |-> u]]
    /\ course_block' = [course_block EXCEPT
            ![w] = [course_id |-> c, other_course_settings |-> other_course_settings[c]]]
    /\ pc' = [pc EXCEPT ![w] = "loaded"]
    /\ UNCHANGED <<other_course_settings, update_item_calls, returned, get_ret>>

\* the assignment of line 51 on a loaded block's other_course_settings
AssignMerged(settings, program_data) ==
    [settings EXCEPT !["program_metadata_v1"] =
        IF @.t = "dict"
        THEN PyDict([k \in MetaKeys |->
                        IF program_data[k] = Absent THEN @.d[k] ELSE program_data[k]])
        ELSE PyDict(program_data)]

AssignProgramMetadata(settings, program_data) ==
    [settings EXCEPT !["program_metadata_v1"] = PyDict(program_data)]

\* update_program_metadata lines 50-51
UpdateAssign(w) ==
    /\ pc[w] = "loaded"
    /\ course_block' = [course_block EXCEPT ![w].other_course_settings =
            AssignProgramMetadata(@, call[w].program_data)]
    /\ pc' = [pc EXCEPT ![w] = "assigned"]
    /\ UNCHANGED <<other_course_settings, call, update_item_calls, returned, get_ret>>

\* store.update_item(course_block, user_id): what the store holds afterwards
UpdateItemFieldwise(stored, block) ==
    [k \in SettingsKeys |->
        IF k = "program_metadata_v1" /\ stored[k].t = "dict" /\ block[k].t = "dict"
        THEN PyDict([m \in MetaKeys |->
                        IF block[k].d[m] = Absent THEN stored[k].d[m] ELSE block[k].d[m]])
        ELSE block[k]]

UpdateItem(stored, block) == block

\* update_program_metadata line 52, and the return
UpdatePersistOnlyMetadata(w) ==
    /\ pc[w] = "assigned"
    /\ other_course_settings' = [other_course_settings EXCEPT
            ![course_block[w].course_id] =
                Settings(course_block[w].other_course_settings["program_metadata_v1"], Absent)]
    /\ update_item_calls' = Append(update_item_calls,
            [course_block |-> course_block[w], user_id |-> call[w].user_id])
    /\ returned' = Append(returned,
            [call |-> call[w], overlapped |-> \E x \in Workers \ {w} : pc[x] # "idle"])
    /\ pc' = [pc EXCEPT ![w] = "idle"]
    /\ course_block' = [course_block EXCEPT ![w] = NoBlock]
    /\ call' = [call EXCEPT ![w] = NoCall]
    /\ UNCHANGED get_ret

UpdatePersist(w) ==
    /\ pc[w] = "assigned"
    /\ other_course_settings' = [other_course_settings EXCEPT
            ![course_block[w].course_id] = UpdateItem(@, course_block[w].other_course_settings)]
    /\ update_item_calls' = Append(update_item_calls,
            [course_block |-> course_block[w], user_id |-> call[w].user_id])
    /\ returned' = Append(returned,
            [call |-> call[w], overlapped |-> \E x \in Workers \ {w} : pc[x] # "idle"])
    /\ pc' = [pc EXCEPT ![w] = "idle"]
    /\ course_block' = [course_block EXCEPT ![w] = NoBlock]
    /\ call' = [call EXCEPT ![w] = NoCall]
    /\ UNCHANGED get_ret

\* a response record of an endpoint: status 0 stands for no response yet
NoBody == [error |-> "", errors |-> <<>>, record |-> <<>>]
NoResponse == [status |-> 0, body |-> NoBody, calls |-> <<>>]
NoRequest == [method |-> "", user |-> 0, course_id |-> <<>>, data |-> None]
NoListRequest == [user |-> 0, national_id |-> Absent, is_enrolled |-> Absent, org |-> Absent]
NoPlatform == [extrainfo |-> <<>>, visible |-> <<>>, enrolled |-> {}, lookup_roles |-> {}]
NoCertificateSettings == [group_codes |-> Absent, passed |-> {}, users |-> <<>>]
NoCertificateEvent == [time |-> <<>>, user_id |-> 0, course_key |-> <<>>, grade |-> None]

MetaIdle ==
    /\ FEATURES = Absent /\ post_count = 0
    /\ meta_request = NoRequest /\ meta_response = NoResponse

ListIdle ==
    /\ platform = NoPlatform
    /\ list_request = NoListRequest /\ list_response = NoResponse

CertIdle ==
    /\ certificate_settings = NoCertificateSettings
    /\ certificate_event = NoCertificateEvent
    /\ certificate_out = NotCalled

NoTemplate == [name |-> "", other_config_str |-> "", changed_by |-> 0,
               slug_suffix |-> <<>>, use_default_saml_configuration_slug |-> FALSE,
               archived |-> FALSE]
NoSamlDb == [template |-> NoTemplate, sites |-> {}, saml_configuration |-> <<>>,
             saml_provider_config |-> <<>>, calls |-> <<>>]
NoSamlOp == [op |-> "", sites |-> <<>>, pk_set |-> {}, user |-> 0]
NoSiteConfiguration == [extended_profile_fields |-> <<>>, translations |-> {},
                        LANGUAGE_CODE |-> ""]
AsyncTasks == {"t1", "t2"}

SlugIdle == site_domain = <<>> /\ slug_suffix = <<>> /\ slug_out = NotCalled

SamlIdle == saml_db = NoSamlDb /\ saml_op = NoSamlOp /\ saml_ops = 0

PatchIdle ==
    /\ site_configuration = NoSiteConfiguration /\ attribute = <<>>
    /\ patch_out = NotCalled /\ field_created = NotCalled

TaskIdle ==
    /\ legacy_frontend = Absent /\ legacy_frontend_before = Absent
    /\ task_pc = [t \in AsyncTasks |-> "unused"]
    /\ existing_legacy_frontend_setting = [t \in AsyncTasks |-> None]

ExtIdle == SlugIdle /\ SamlIdle /\ PatchIdle /\ TaskIdle

ViewsIdle == MetaIdle /\ ListIdle /\ CertIdle /\ ExtIdle

PureIdle ==
    /\ time_str = None /\ hms_out = NotCalled
    /\ date_string = None /\ iso_out = NotCalled
    /\ course_api_data = None /\ lookup_out = NoLookup

StoreIdle ==
    /\ pc = [w \in Workers |-> "idle"]
    /\ call = [w \in Workers |-> NoCall]
    /\ course_block = [w \in Workers |-> NoBlock]
    /\ update_item_calls = <<>>
    /\ returned = <<>>
    /\ get_ret = NoGet

Init ==
    /\ other_course_settings \in [CourseIds -> InitialSettings]
    /\ StoreIdle
    /\ PureIdle
    /\ ViewsIdle

Next ==
    \/ \E c \in CourseIds : GetProgramMetadata(c) /\ UNCHANGED <<hmsVars, isoVars, lookupVars, viewVars>>
    \/ \E w \in Workers, c \in CourseIds, d \in ProgramDataSet, u \in UserIds :
            UpdateLoad(w, c, d, u) /\ UNCHANGED <<hmsVars, isoVars, lookupVars, viewVars>>
    \/ \E w \in Workers : UpdateAssign(w) /\ UNCHANGED <<hmsVars, isoVars, lookupVars, viewVars>>
    \/ \E w \in Workers : UpdatePersist(w) /\ UNCHANGED <<hmsVars, isoVars, lookupVars, viewVars>>

Spec == Init /\ [][Next]_vars

----------------------------------------------------------------------------
(* Duration converter: hms_to_int *)

Digits == <<"0", "1", "2", "3", "4", "5", "6", "7", "8", "9">>
DigitChars == {Digits[i] : i \in 1..Len(Digits)}
DigitVal(ch) == (CHOOSE i \in 1..Len(Digits) : Digits[i] = ch) - 1

\* str.strip() as int() applies it: leading and trailing blanks are dropped
RECURSIVE Strip(_)
Strip(cs) ==
    IF cs = <<>> THEN cs
    ELSE IF Head(cs) = " " THEN Strip(Tail(cs))
    ELSE IF cs[Len(cs)] = " " THEN Strip(SubSeq(cs, 1, Len(cs) - 1))
    ELSE cs

\* value of a run of decimal digits in which single underscores may separate digits
RECURSIVE DigitsValue(_)
DigitsValue(ds) ==
    IF ds = <<>> THEN 0
    ELSE IF ds[Len(ds)] = "_" THEN DigitsValue(SubSeq(ds, 1, Len(ds) - 1))
    ELSE 10 * DigitsValue(SubSeq(ds, 1, Len(ds) - 1)) + DigitVal(ds[Len(ds)])

\* the digit part int() accepts: digits, single underscores only between digits
IsDigitBody(b) ==
    /\ b # <<>>
    /\ \A i \in 1..Len(b) : b[i] \in DigitChars \cup {"_"}
    /\ b[1] # "_" /\ b[Len(b)] # "_"
    /\ \A i \in 1..(Len(b) - 1) : ~(b[i] = "_" /\ b[i + 1] = "_")

\* int() of a stripped text st
int_of_stripped(st, signed) ==
    IF IsDigitBody(IF signed THEN Tail(st) ELSE st)
    THEN [exc |-> "none", v |-> IF signed /\ st[1] = "-" THEN 0 - DigitsValue(Tail(st))
                                ELSE IF signed THEN DigitsValue(Tail(st))
                                ELSE DigitsValue(st)]
    ELSE [exc |-> "ValueError", v |-> 0]

signed_text(st) == st # <<>> /\ st[1] \in {"+", "-"}

stripped_int(st) == int_of_stripped(st, signed_text(st))

\* int(cs) for a str: the value, or ValueError
py_int(cs) == stripped_int(Strip(cs))

\* cs.split(sep) for a one-character separator
RECURSIVE Split(_, _)
Split(cs, sep) ==
    IF \A i \in 1..Len(cs) : cs[i] # sep THEN <<cs>>
    ELSE LET i == CHOOSE j \in 1..Len(cs) :
                      cs[j] = sep /\ \A k \in 1..(j - 1) : cs[k] # sep
         IN  <<SubSeq(cs, 1, i - 1)>> \o Split(SubSeq(cs, i + 1, Len(cs)), sep)

\* round(hours + minutes / 60) for 0 <= minutes < 60, on the exact quotient:
\* to the nearest integer, a tie going to the even neighbour
py_round_half_up(hours, minutes) ==
    IF minutes >= 30 THEN hours + 1 ELSE hours

py_round(hours, minutes) ==
    IF minutes < 30 THEN hours
    ELSE IF minutes > 30 THEN hours + 1
    ELSE IF hours % 2 = 0 THEN hours ELSE hours + 1

\* lines 128-129: minutes outside 0..59 are reset to 0
reset_minutes(minutes) == IF minutes < 0 \/ minutes >= 60 THEN 0 ELSE minutes

\* line 126: hours, minutes = map(int, time_str.split(":")); the unpacking asks
\* the lazy map for a third item to see that there is none
unpacked(h, m) ==
    IF h.exc # "none" THEN [exc |-> h.exc, hours |-> 0, minutes |-> 0]
    ELSE IF m.exc # "none" THEN [exc |-> m.exc, hours |-> 0, minutes |-> 0]
    ELSE [exc |-> "none", hours |-> h.v, minutes |-> m.v]

unpack_first_two(parts) == unpacked(py_int(parts[1]), py_int(parts[2]))

unpack_hours_minutes(parts) ==
    IF \E i \in 1..Len(parts) : i <= 3 /\ py_int(parts[i]).exc # "none"
    THEN [exc |-> "ValueError", hours |-> 0, minutes |-> 0]
    ELSE IF Len(parts) # 2 THEN [exc |-> "ValueError", hours |-> 0, minutes |-> 0]
    ELSE unpacked(py_int(parts[1]), py_int(parts[2]))

\* lines 128-131 on the unpacked pair u
hms_rounded(u) ==
    IF u.exc # "none" THEN [exc |-> u.exc, v |-> 0]
    ELSE [exc |-> "none", v |-> py_round(u.hours, reset_minutes(u.minutes))]

\* the try block, lines 125-132, for a non-empty str
hms_try(cs) ==
    IF \E i \in 1..Len(cs) : cs[i] = ":"
    THEN hms_rounded(unpack_hours_minutes(Split(cs, ":")))
    ELSE py_int(cs)

\* lines 133-135 on the outcome r of the try block
hms_outcome(r) ==
    IF r.exc = "none" THEN Returns(PyInt(r.v), "none")
    ELSE IF r.exc = "ValueError" THEN Returns(None, "warning")
    ELSE Raises(r.exc, "none")

\* hms_to_int(time_str), lines 122-135
hms_to_int(str) ==
    IF ~Truthy(str) THEN Returns(None, "none") ELSE hms_outcome(hms_try(str.s))

MaxLen == 5
HmsAlphabet == {"0", "1", "2", "3", "4", "5", "9", ":", "-", "b", " "}
\* time_str is None or a str of up to MaxLen characters
IsHmsInput(v) ==
    \/ v = None
    \/ \E k \in 0..MaxLen : \E cs \in [1..k -> HmsAlphabet] : v = PyStr(cs)

HmsToInt ==
    /\ hms_out = NotCalled
    /\ hms_out' = hms_to_int(time_str)
    /\ UNCHANGED time_str

StoreUnused ==
    /\ other_course_settings = [c \in CourseIds |-> EmptySettings]
    /\ StoreIdle

InitHms ==
    /\ StoreUnused
    /\ IsHmsInput(time_str) /\ hms_out = NotCalled
    /\ date_string = None /\ iso_out = NotCalled
    /\ course_api_data = None /\ lookup_out = NoLookup
    /\ ViewsIdle

NextHms == HmsToInt /\ UNCHANGED <<storeVars, isoVars, lookupVars, viewVars>>

SpecHms == InitHms /\ [][NextHms]_vars

----------------------------------------------------------------------------
(* Date converter: convert_to_isoformat *)

\* date_string.replace('Z', '+00:00')
RECURSIVE ReplaceZ(_)
ReplaceZ(cs) ==
    IF cs = <<>> THEN cs
    ELSE IF Head(cs) = "Z" THEN <<"+", "0", "0", ":", "0", "0">> \o ReplaceZ(Tail(cs))
    ELSE <<Head(cs)>> \o ReplaceZ(Tail(cs))

AllDigits(cs) == \A i \in 1..Len(cs) : cs[i] \in DigitChars

\* the directive patterns strptime compiles the format into
MatchesY(cs) == Len(cs) = 4 /\ AllDigits(cs)
Matches_m(cs) ==
    \/ Len(cs) = 2 /\ cs[1] = "1" /\ cs[2] \in {"0", "1", "2"}
    \/ Len(cs) = 2 /\ cs[1] = "0" /\ cs[2] \in DigitChars \ {"0"}
    \/ Len(cs) = 1 /\ cs[1] \in DigitChars \ {"0"}
Matches_d(cs) ==
    \/ Len(cs) = 2 /\ cs[1] = "3" /\ cs[2] \in {"0", "1"}
    \/ Len(cs) = 2 /\ cs[1] \in {"1", "2"} /\ cs[2] \in DigitChars
    \/ Len(cs) = 2 /\ cs[1] = "0" /\ cs[2] \in DigitChars \ {"0"}
    \/ Len(cs) = 1 /\ cs[1] \in DigitChars \ {"0"}
    \/ Len(cs) = 2 /\ cs[1] = " " /\ cs[2] \in DigitChars \ {"0"}
MatchesH(cs) ==
    \/ Len(cs) = 2 /\ cs[1] = "2" /\ cs[2] \in {"0", "1", "2", "3"}
    \/ Len(cs) = 2 /\ cs[1] \in {"0", "1"} /\ cs[2] \in DigitChars
    \/ Len(cs) = 1 /\ cs[1] \in DigitChars
MatchesM(cs) ==
    \/ Len(cs) = 2 /\ cs[1] \in {"0", "1", "2", "3", "4", "5"} /\ cs[2] \in DigitChars
    \/ Len(cs) = 1 /\ cs[1] \in DigitChars
MatchesS(cs) ==
    \/ Len(cs) = 2 /\ cs[1] = "6" /\ cs[2] \in {"0", "1"}
    \/ MatchesM(cs)

\* %z: [+-]hh[:]mm[[:]ss] with the colons used consistently, or a literal Z;
\* the UTC offset in seconds, or -1 when the text is no offset
ZoneOffset(z) ==
    LET two(i) == 10 * DigitVal(z[i]) + DigitVal(z[i + 1])
        isMM(i) == z[i] \in {"0", "1", "2", "3", "4", "5"} /\ z[i + 1] \in DigitChars
        isHH == z[1] \in {"+", "-"} /\ z[2] \in DigitChars /\ z[3] \in DigitChars
    IN  IF z = <<"Z">> THEN 0
        ELSE IF Len(z) = 5 /\ isHH /\ isMM(4) THEN two(2) * 3600 + two(4) * 60
        ELSE IF Len(z) = 6 /\ isHH /\ z[4] = ":" /\ isMM(5) THEN two(2) * 3600 + two(5) * 60
        ELSE IF Len(z) = 7 /\ isHH /\ isMM(4) /\ isMM(6)
            THEN two(2) * 3600 + two(4) * 60 + two(6)
        ELSE IF Len(z) = 9 /\ isHH /\ z[4] = ":" /\ isMM(5) /\ z[7] = ":" /\ isMM(8)
            THEN two(2) * 3600 + two(5) * 60 + two(8)
        ELSE 0 - 1

IsLeap(y) == (y % 4 = 0 /\ y % 100 # 0) \/ y % 400 = 0
DaysInMonth(y, m) ==
    IF m = 2 THEN (IF IsLeap(y) THEN 29 ELSE 28)
    ELSE IF m \in {4, 6, 9, 11} THEN 30 ELSE 31

\* date.isoformat(): zero-padded YYYY-MM-DD
Pad2(n) == <<Digits[(n \div 10) + 1], Digits[(n % 10) + 1]>>
isoformat(y, m, d) ==
    Pad2(y \div 100) \o Pad2(y % 100) \o <<"-">> \o Pad2(m) \o <<"-">> \o Pad2(d)

\* the ways the text splits into the fields of '%Y-%m-%dT%H:%M:%S%z': each
\* numeric field but the year is one or two characters long
FieldSplits(cs) ==
    { f \in [m : 1..2, d : 1..2, H : 1..2, M : 1..2, S : 1..2] :
        LET p2 == 6 + f.m               \* the second '-'
            pT == p2 + f.d + 1          \* the 'T'
            c1 == pT + f.H + 1          \* the first ':'
            c2 == c1 + f.M + 1          \* the second ':'
        IN  /\ Len(cs) >= c2 + f.S
            /\ MatchesY(SubSeq(cs, 1, 4))
            /\ cs[5] = "-"
            /\ Matches_m(SubSeq(cs, 6, p2 - 1))
            /\ cs[p2] = "-"
            /\ Matches_d(SubSeq(cs, p2 + 1, pT - 1))
            /\ cs[pT] \in {"T", "t"}
            /\ MatchesH(SubSeq(cs, pT + 1, c1 - 1))
            /\ cs[c1] = ":"
            /\ MatchesM(SubSeq(cs, c1 + 1, c2 - 1))
            /\ cs[c2] = ":"
            /\ MatchesS(SubSeq(cs, c2 + 1, c2 + f.S))
            /\ ZoneOffset(SubSeq(cs, c2 + f.S + 1, Len(cs))) >= 0 }

\* the values strptime reads from the text split as f, checked as datetime
\* checks them: the date, or ValueError
parsed_date(cs, f, p2, pT, c2) ==
    LET year == DigitsValue(SubSeq(cs, 1, 4))
        month == DigitsValue(SubSeq(cs, 6, p2 - 1))
        day == DigitsValue(Strip(SubSeq(cs, p2 + 1, pT - 1)))
        second == DigitsValue(SubSeq(cs, c2 + 1, c2 + f.S))
        gmtoff == ZoneOffset(SubSeq(cs, c2 + f.S + 1, Len(cs)))
    IN  IF year < 1 \/ day > DaysInMonth(year, month) \/ second > 59
           \/ gmtoff >= 86400
        THEN [exc |-> "ValueError", v |-> <<>>]
        ELSE [exc |-> "none", v |-> isoformat(year, month, day)]

\* the match of the text against the format, given the set of its field splits
strptime_match(cs, splits) ==
    IF splits = {} THEN [exc |-> "ValueError", v |-> <<>>]
    ELSE LET f == CHOOSE x \in splits : TRUE
         IN  parsed_date(cs, f, 6 + f.m, 7 + f.m + f.d,
                         9 + f.m + f.d + f.H + f.M)

\* datetime.strptime(cs, '%Y-%m-%dT%H:%M:%S%z').date().isoformat(), or ValueError
strptime_date_isoformat(cs) == strptime_match(cs, FieldSplits(cs))

\* lines 102-107 on the outcome r of the parse
iso_outcome(r) ==
    IF r.exc = "none" THEN Returns(PyStr(r.v), "none")
    ELSE IF r.exc = "ValueError" THEN Returns(None, "error")
    ELSE Raises(r.exc, "none")

\* convert_to_isoformat(date_string), lines 99-107
convert_to_isoformat_unguarded(str) ==
    IF str.t # "str" THEN Raises("AttributeError", "none")
    ELSE iso_outcome(strptime_date_isoformat(ReplaceZ(str.s)))

convert_to_isoformat(str) ==
    IF ~Truthy(str) THEN Returns(None, "none")
    ELSE iso_outcome(strptime_date_isoformat(ReplaceZ(str.s)))

\* the pieces date_string is put together from: well-formed ones and broken ones
YearParts == { <<"2", "0", "2", "3">>,
      <<"2", "0", "2", "4">>,
      <<"1", "9", "0", "0">>,
      <<"0", "0", "0", "0">>,
      <<"2", "0", "3">> }
MonthParts == { <<"0", "1">>,
      <<"0", "2">>,
      <<"1", "2">>,
      <<"1", "3">>,
      <<"2">>,
      <<"0", "0">> }
DayParts == { <<"0", "1">>,
      <<"2", "8">>,
      <<"2", "9">>,
      <<"3", "0">>,
      <<"3", "1">>,
      <<"3", "2">>,
      <<"9">>,
      <<" ", "9">> }
DateSeps == { <<"-">>, <<"/">> }
TimeSeps == { <<"T">>, <<"t">>, <<" ">> }
TimeParts == { <<"1", "2", ":", "0", "0", ":", "0", "0">>,
      <<"2", "3", ":", "5", "9", ":", "5", "9">>,
      <<"2", "4", ":", "0", "0", ":", "0", "0">>,
      <<"1", "2", ":", "6", "0", ":", "0", "0">>,
      <<"1", "2", ":", "0", "0", ":", "6", "0">>,
      <<"1", ":", "2", ":", "3">>,
      <<"1", "2", ":", "0", "0">> }
ZoneParts == { <<>>,
      <<"Z">>,
      <<"z">>,
      <<"Z", "Z">>,
      <<"+", "0", "0", ":", "0", "0">>,
      <<"+", "0", "5", "3", "0">>,
      <<"-", "2", "3", ":", "5", "9">>,
      <<"+", "2", "4", ":", "0", "0">>,
      <<"+", "0", "5", ":", "3">>,
      <<"+", "0", "5", ":", "3", "0", ":", "1", "5">>,
      <<"+", "0", "5", "3", "0", ":", "1", "5">> }
OddDateStrings == { <<>>,
      <<"n", "o", "t", "-", "a", "-", "d", "a", "t", "e">>,
      <<"Z">>,
      <<"2", "0", "2", "3", "-", "0", "1", "-", "0", "1">> }

IsDateInput(v) ==
    \/ v = None
    \/ \E cs \in OddDateStrings : v = PyStr(cs)
    \/ \E y \in YearParts, s1 \in DateSeps, m \in MonthParts, d \in DayParts,
          ts \in TimeSeps, tm \in TimeParts, z \in ZoneParts :
            v = PyStr(y \o s1 \o m \o <<"-">> \o d \o ts \o tm \o z)

ConvertToIsoformat ==
    /\ iso_out = NotCalled
    /\ iso_out' = convert_to_isoformat(date_string)
    /\ UNCHANGED date_string

InitIso ==
    /\ StoreUnused
    /\ time_str = None /\ hms_out = NotCalled
    /\ IsDateInput(date_string) /\ iso_out = NotCalled
    /\ course_api_data = None /\ lookup_out = NoLookup
    /\ ViewsIdle

NextIso == ConvertToIsoformat /\ UNCHANGED <<storeVars, hmsVars, lookupVars, viewVars>>

SpecIso == InitIso /\ [][NextIso]_vars

----------------------------------------------------------------------------
(* Program lookup assembler: get_program_lookup_representation *)

ApiKeys == {"course_id", "name", "start", "end", "effort"}

\* the keys of the dict literal of lines 68-84, and the two date names
\* ProgramLookupSerializer declares that the literal does not use
LiteralKeys ==
    {"program_name", "program_code", "training_location", "data_start", "data_start_hijri",
     "date_end", "date_end_hijri", "trainer_type", "type_of_activity", "type_of_activity_id",
     "unit", "duration", "mandatory", "program_approve", "code"}
RecordKeys == LiteralKeys \cup {"date_start", "date_start_hijri"}

\* constants.TYPES_OF_ACTIVITY_MAPPING: activity code -> display string
ActivityLabel165 == PyStr(<<"L", "1", "6", "5">>)
TYPES_OF_ACTIVITY_MAPPING == [code \in {165} |-> ActivityLabel165]

\* TYPES_OF_ACTIVITY_MAPPING.get(code)
ActivityGet(code) ==
    IF code.t = "int" /\ code.i \in DOMAIN TYPES_OF_ACTIVITY_MAPPING
    THEN TYPES_OF_ACTIVITY_MAPPING[code.i]
    ELSE None

\* Gregorian.fromisoformat(iso).to_hijri().isoformat(): the external calendar
\* conversion, kept as an uninterpreted injective map of the date
HijriOf(cs) == <<"H">> \o cs

\* lines 73 and 75: `<hijri of iso> if iso else None`; val is the value of the
\* expression, calls the arguments the conversion was invoked on
hijri_unconditional(iso) ==
    IF iso.t = "str" THEN [val |-> PyStr(HijriOf(iso.s)), calls |-> {iso}, exc |-> "none"]
    ELSE [val |-> Absent, calls |-> {iso}, exc |-> "TypeError"]

hijri_if_date(iso) ==
    IF Truthy(iso) THEN [val |-> PyStr(HijriOf(iso.s)), calls |-> {iso}, exc |-> "none"]
    ELSE [val |-> None, calls |-> {}, exc |-> "none"]

\* line 77: the label of the stored code, -1 standing for a missing code
activity_label_default_165(program_metadata) ==
    IF program_metadata["type_of_activity"] = Absent THEN ActivityLabel165
    ELSE ActivityGet(program_metadata["type_of_activity"])

activity_label(program_metadata) ==
    ActivityGet(DictGet(program_metadata, "type_of_activity", PyInt(0 - 1)))

\* line 80: `<hours> or 0` on the value hms_to_int returned
duration_or_none(hours) == hours

duration(hours) == IF Truthy(hours) THEN hours ELSE PyInt(0)

\* the dict literal of lines 68-84
LookupLiteral(api, program_metadata, data_start_iso, data_end_iso, hs, he, hours) ==
    [k \in RecordKeys |->
        CASE k = "program_name" -> DictGet(api, "name", None)
          [] k = "program_code" -> DictGet(program_metadata, "program_code", None)
          [] k = "training_location" -> PyStr(<<"F", "u", "t", "u", "r", "e", "X">>)
          [] k = "data_start" -> data_start_iso
          [] k = "data_start_hijri" -> hs
          [] k = "date_end" -> data_end_iso
          [] k = "date_end_hijri" -> he
          [] k = "trainer_type" -> PyInt(10)
          [] k = "type_of_activity" -> activity_label(program_metadata)
          [] k = "type_of_activity_id" -> DictGet(program_metadata, "type_of_activity", None)
          [] k = "unit" -> PyStr(<<"h", "o", "u", "r">>)
          [] k = "duration" -> duration(hours)
          [] k = "mandatory" -> DictGet(program_metadata, "mandatory", None)
          [] k = "program_approve" -> DictGet(program_metadata, "program_approve", None)
          [] k = "code" -> api["course_id"]
          [] OTHER -> Absent]

\* the log records of a converter call
log(o) == IF o.logged = "none" THEN <<>> ELSE <<o.logged>>

\* lines 68-85 given the outcomes of the calls made on the way: pm of
\* get_program_metadata, start and end of convert_to_isoformat, hs and he of
\* the Hijri expressions, effort of hms_to_int
assemble(api, pm, start, end, hs, he, effort) ==
    IF start.raised # "none"
    THEN [out |-> Raises(start.raised, <<>>), hijri_calls |-> {}]
    ELSE IF end.raised # "none"
    THEN [out |-> Raises(end.raised, log(start)), hijri_calls |-> {}]
    ELSE IF pm.t # "dict"
    THEN [out |-> Raises("AttributeError", log(start) \o log(end)), hijri_calls |-> {}]
    ELSE IF hs.exc # "none"
    THEN [out |-> Raises(hs.exc, log(start) \o log(end)), hijri_calls |-> hs.calls]
    ELSE IF he.exc # "none"
    THEN [out |-> Raises(he.exc, log(start) \o log(end)),
          hijri_calls |-> hs.calls \cup he.calls]
    ELSE IF effort.raised # "none"
    THEN [out |-> Raises(effort.raised, log(start) \o log(end)),
          hijri_calls |-> hs.calls \cup he.calls]
    ELSE [out |-> Returns(PyDict(LookupLiteral(api, pm.d, start.ret, end.ret, hs.val,
                                               he.val, effort.ret)),
                          log(start) \o log(end) \o log(effort)),
          hijri_calls |-> hs.calls \cup he.calls]

\* lines 65-67 with the converted dates at hand
with_dates(api, pm, start, end) ==
    assemble(api, pm, start, end, hijri_if_date(start.ret), hijri_if_date(end.ret),
             hms_to_int(DictGet(api, "effort", None)))

\* get_program_lookup_representation(course_api_data), lines 65-85, reading
\* the content store `store`: the outcome and the dates handed to the Hijri
\* conversion
get_program_lookup_representation(api, store) ==
    IF api["course_id"] = Absent
    THEN [out |-> Raises("KeyError", <<>>), hijri_calls |-> {}]
    ELSE with_dates(api, get_program_metadata(store[api["course_id"].s]),
                    convert_to_isoformat(DictGet(api, "start", None)),
                    convert_to_isoformat(DictGet(api, "end", None)))

\* course listing records: every field may be missing, null or a string
StartValues ==
    { Absent, None, PyStr(<<>>),
      PyStr(<<"2", "0", "3", "0", "-", "0", "1", "-", "0", "1", "T",
              "0", "0", ":", "0", "0", ":", "0", "0", "Z">>),
      PyStr(<<"n", "o", "t", "-", "a", "-", "d", "a", "t", "e">>) }
EndValues ==
    { Absent, None,
      PyStr(<<"2", "0", "3", "4", "-", "1", "2", "-", "2", "5", "T",
              "0", "0", ":", "0", "0", ":", "0", "0", "Z">>),
      PyStr(<<"2", "0", "3", "4", "-", "1", "3", "-", "2", "5", "T",
              "0", "0", ":", "0", "0", ":", "0", "0", "Z">>) }
EffortValues ==
    { Absent, None, PyStr(<<>>), PyStr(<<"0">>), PyStr(<<"5", ":", "0", "0">>),
      PyStr(<<"1", ":", "3", "0">>), PyStr(<<"b", "a", "d">>) }
NameValues == { Absent, None, PyStr(<<"T", "e", "s", "t">>) }
CourseIdValues == {Absent} \cup {PyStr(c) : c \in CourseIds}

ApiRecord(course_id, name, start, end, effort) ==
    [k \in ApiKeys |->
        CASE k = "course_id" -> course_id
          [] k = "name" -> name
          [] k = "start" -> start
          [] k = "end" -> end
          [] k = "effort" -> effort]

\* what a course may hold under program_metadata_v1: nothing, null, the empty
\* mapping, records with a known, an unknown, a negative and a missing code
StoredMetadataValues ==
    { Absent, None, PyDict(EmptyMeta),
      PyDict(Meta(PyStr(<<"P", "1">>), PyInt(165), PyStr(<<"0", "1">>), PyStr(<<"0", "1">>))),
      PyDict(ProgramDataC),
      PyDict(Meta(PyStr(<<"P", "4">>), PyInt(0 - 1), Absent, PyStr(<<"0", "0">>))),
      PyDict(ProgramDataA) }

GetProgramLookupRepresentation ==
    /\ lookup_out = NoLookup
    /\ lookup_out' = get_program_lookup_representation(course_api_data.d, other_course_settings)
    /\ UNCHANGED course_api_data

InitLookup ==
    /\ \E m1 \in StoredMetadataValues, m2 \in {Absent, PyDict(ProgramDataB)} :
          other_course_settings =
              [c \in CourseIds |-> IF c = <<"c", "1">> THEN Settings(m1, PyStr(<<"x">>))
                                                       ELSE Settings(m2, Absent)]
    /\ StoreIdle
    /\ time_str = None /\ hms_out = NotCalled
    /\ date_string = None /\ iso_out = NotCalled
    /\ \E c \in CourseIdValues, n \in NameValues, st \in StartValues, en \in EndValues,
          ef \in EffortValues : course_api_data = PyDict(ApiRecord(c, n, st, en, ef))
    /\ lookup_out = NoLookup
    /\ ViewsIdle

NextLookup == GetProgramLookupRepresentation /\ UNCHANGED <<storeVars, hmsVars, isoVars, viewVars>>

SpecLookup == InitLookup /\ [][NextLookup]_vars

----------------------------------------------------------------------------
(* Serializers: the fields of ProgramsMetadataSerializer *)

\* str(v)
RECURSIVE NatToStr(_)
NatToStr(n) ==
    IF n < 10 THEN <<Digits[n + 1]>>
    ELSE NatToStr(n \div 10) \o <<Digits[(n % 10) + 1]>>

py_str(v) ==
    CASE v.t = "str" -> v.s
      [] v.t = "int" -> IF v.i < 0 THEN <<"-">> \o NatToStr(0 - v.i) ELSE NatToStr(v.i)
      [] v.t = "bool" -> IF v.b THEN <<"T", "r", "u", "e">> ELSE <<"F", "a", "l", "s", "e">>
      [] v.t = "None" -> <<"N", "o", "n", "e">>
      [] OTHER -> <<"{", "}">>

\* IntegerField.re_decimal, '\.0*\s*$', removed from the text
IsZerosThenBlanks(cs) ==
    \E k \in 0..Len(cs) :
        /\ \A i \in 1..k : cs[i] = "0"
        /\ \A i \in (k + 1)..Len(cs) : cs[i] = " "

DecimalTail(cs) ==
    {i \in 1..Len(cs) : cs[i] = "." /\ IsZerosThenBlanks(SubSeq(cs, i + 1, Len(cs)))}

re_decimal_sub(cs) ==
    IF DecimalTail(cs) = {} THEN cs
    ELSE SubSeq(cs, 1, (CHOOSE i \in DecimalTail(cs) : TRUE) - 1)

\* outcome of a field: the validated value, or the code of the error raised
FieldOk(value) == [code |-> "ok", value |-> value]
FieldFail(code) == [code |-> code, value |-> Absent]

\* Field.validate_empty_values for a required field that allows no null
validate_empty_values(data) ==
    IF data = Absent THEN "required" ELSE IF data = None THEN "null" ELSE "ok"

int_field_value(r) ==
    IF r.exc = "none" THEN FieldOk(PyInt(r.v)) ELSE FieldFail("invalid")

\* serializers.IntegerField().run_validation(data)
IntegerField(data) ==
    IF validate_empty_values(data) # "ok" THEN FieldFail(validate_empty_values(data))
    ELSE int_field_value(py_int(re_decimal_sub(py_str(data))))

char_field_checked(value, max_length) ==
    IF Len(value) > max_length THEN FieldFail("max_length") ELSE FieldOk(PyStr(value))

\* serializers.CharField(max_length=...).run_validation(data): the blank test
\* comes first, the value is trimmed, the length is tested on the trimmed value
CharField(data, max_length) ==
    IF data.t = "str" /\ Strip(data.s) = <<>> THEN FieldFail("blank")
    ELSE IF validate_empty_values(data) # "ok" THEN FieldFail(validate_empty_values(data))
    ELSE IF data.t \notin {"str", "int"} THEN FieldFail("invalid")
    ELSE char_field_checked(Strip(py_str(data)), max_length)

FlagMaxLength == 2
ProgramCodeMaxLength == 64
ValidFlags == {PyStr(<<"0", "1">>), PyStr(<<"0", "0">>)}

\* ProgramValidationMixin
validate_mandatory_any(value) == FieldOk(value)

validate_mandatory(value) ==
    IF value \notin ValidFlags THEN FieldFail("not_one_of") ELSE FieldOk(value)

validate_program_approve(value) ==
    IF value \notin ValidFlags THEN FieldFail("not_one_of") ELSE FieldOk(value)

validate_program_code(value) ==
    IF ~Truthy(value) \/ Strip(value.s) = <<>> THEN FieldFail("empty")
    ELSE FieldOk(PyStr(Strip(value.s)))

\* Serializer.to_internal_value for one field: the field's run_validation,
\* then the serializer's validate_<field_name> on the value it returned
validated_field(name, f) ==
    IF f.code # "ok" THEN f
    ELSE CASE name = "mandatory" -> validate_mandatory(f.value)
           [] name = "program_approve" -> validate_program_approve(f.value)
           [] name = "program_code" -> validate_program_code(f.value)
           [] OTHER -> f

WritableFields == {"type_of_activity", "mandatory", "program_approve", "program_code"}
ErrorKeys == WritableFields \cup {"non_field_errors"}
NoErrors == [k \in ErrorKeys |-> "ok"]

run_field(name, data) ==
    CASE name = "type_of_activity" -> validated_field(name, IntegerField(data))
      [] name = "mandatory" -> validated_field(name, CharField(data, FlagMaxLength))
      [] name = "program_approve" -> validated_field(name, CharField(data, FlagMaxLength))
      [] name = "program_code" -> validated_field(name, CharField(data, ProgramCodeMaxLength))

to_internal_value(d) == [k \in WritableFields |-> run_field(k, d[k])]

\* Serializer.to_representation of the validated data: trainer_type is read
\* only, so it is never taken from the input and is rendered from its default
TrainerTypeDefault == 10
validated_data(fields) ==
    [k \in MetaKeys |-> IF k = "trainer_type" THEN Absent ELSE fields[k].value]

to_representation_without_default(fields) ==
    [k \in MetaKeys |-> IF k = "trainer_type" THEN Absent ELSE fields[k].value]

to_representation(fields) ==
    [k \in MetaKeys |-> IF k = "trainer_type" THEN PyInt(TrainerTypeDefault)
                        ELSE fields[k].value]

serializer_outcome(fields) ==
    IF \A k \in WritableFields : fields[k].code = "ok"
    THEN [valid |-> TRUE, errors |-> NoErrors, validated_data |-> validated_data(fields),
          data |-> to_representation(fields)]
    ELSE [valid |-> FALSE,
          errors |-> [k \in ErrorKeys |-> IF k \in WritableFields THEN fields[k].code ELSE "ok"],
          validated_data |-> EmptyMeta, data |-> EmptyMeta]

\* ProgramsMetadataSerializer(data=data) after is_valid(): whether it is valid,
\* its errors, and serializer.data
ProgramsMetadataSerializer(data) ==
    IF data.t # "dict"
    THEN [valid |-> FALSE,
          errors |-> [k \in ErrorKeys |->
                         IF k # "non_field_errors" THEN "ok"
                         ELSE IF data = None THEN "null" ELSE "invalid"],
          validated_data |-> EmptyMeta, data |-> EmptyMeta]
    ELSE serializer_outcome(to_internal_value(data.d))

----------------------------------------------------------------------------
(* Views: ProgramsMetadataView, /metadata/{course_id} *)

\* request.user of a request without credentials
Anonymous == 0

\* course ids a request may name: the courses of the store and one the store
\* does not hold
RequestCourseIds == CourseIds \cup {<<"c", "9">>}

\* auth.has_studio_write_access, decided by the host platform: user 7 may
\* write every course, user 8 only the second one
StudioWriteAccess == {<<7, c>> : c \in RequestCourseIds} \cup {<<8, <<"c", "2">>>>}

Response(status, body, calls) == [status |-> status, body |-> body, calls |-> calls]
ErrorBody(msg) == [error |-> msg, errors |-> <<>>, record |-> <<>>]
ErrorsBody(errors) == [error |-> "", errors |-> errors, record |-> <<>>]
RecordBody(record) == [error |-> "", errors |-> <<>>, record |-> record]
ViewResult(response, store) == [response |-> response, store |-> store]

\* a call of one of the functions of utils.py that access the content store
StoreCall(fn, course_id, program_data, user) ==
    [fn |-> fn, course_id |-> course_id, program_data |-> program_data, user_id |-> user]

\* utils.update_program_metadata as one step, on a course the store holds
update_program_metadata(store, course_id, program_data) ==
    [store EXCEPT ![course_id] = UpdateItem(@, AssignProgramMetadata(@, program_data))]

\* ProgramsMetadataView.get, lines 132-135
get_serialized(ser, calls) ==
    IF ~ser.valid THEN Response(400, ErrorsBody(ser.errors), calls)
    ELSE Response(200, RecordBody(ser.data), calls)

\* ProgramsMetadataView.get, lines 129-135
get_found_unchecked(program_metadata, calls) ==
    get_serialized(ProgramsMetadataSerializer(program_metadata), calls)

get_found(program_metadata, calls) ==
    IF ~Truthy(program_metadata)
    THEN Response(404, ErrorBody("Program metadata not found"), calls)
    ELSE get_serialized(ProgramsMetadataSerializer(program_metadata), calls)

\* ProgramsMetadataView.get: for a course the store does not hold,
\* modulestore().get_course returns None and line 32 of utils.py raises
ProgramsMetadataView_get(course_id, store) ==
    IF course_id \notin DOMAIN store
    THEN Response(500, ErrorBody("AttributeError"),
                  <<StoreCall("get_program_metadata", course_id, EmptyMeta, 0)>>)
    ELSE get_found(get_program_metadata(store[course_id]),
                   <<StoreCall("get_program_metadata", course_id, EmptyMeta, 0)>>)

\* ProgramsMetadataView.post, lines 151-153
post_valid_storing_validated_data(course_id, ser, user, store) ==
    IF course_id \notin DOMAIN store
    THEN ViewResult(Response(500, ErrorBody("AttributeError"),
                <<StoreCall("update_program_metadata", course_id, ser.validated_data, user)>>),
            store)
    ELSE ViewResult(Response(201, RecordBody(ser.data),
                <<StoreCall("update_program_metadata", course_id, ser.validated_data, user)>>),
            update_program_metadata(store, course_id, ser.validated_data))

post_valid(course_id, ser, user, store) ==
    IF course_id \notin DOMAIN store
    THEN ViewResult(Response(500, ErrorBody("AttributeError"),
                <<StoreCall("update_program_metadata", course_id, ser.data, user)>>),
            store)
    ELSE ViewResult(Response(201, RecordBody(ser.data),
                <<StoreCall("update_program_metadata", course_id, ser.data, user)>>),
            update_program_metadata(store, course_id, ser.data))

\* ProgramsMetadataView.post, lines 149-153
post_serialized(course_id, ser, user, store) ==
    IF ~ser.valid THEN ViewResult(Response(400, ErrorsBody(ser.errors), <<>>), store)
    ELSE post_valid(course_id, ser, user, store)

ProgramsMetadataView_post(course_id, request_data, user, store) ==
    post_serialized(course_id, ProgramsMetadataSerializer(request_data), user, store)

\* the handler the method of the request selects
handler(request, store) ==
    IF request.method = "GET"
    THEN ViewResult(ProgramsMetadataView_get(request.course_id, store), store)
    ELSE ProgramsMetadataView_post(request.course_id, request.data, request.user, store)

\* views.require_feature_enabled, lines 37-42, around the handler's result
FeatureName == "ENABLE_OTHER_COURSE_SETTINGS"
require_feature_unless_false(features, result, store) ==
    IF features = PyBool(FALSE)
    THEN ViewResult(Response(501, ErrorBody(FeatureName), <<>>), store)
    ELSE result

require_feature_enabled(features, result, store) ==
    IF ~Truthy(features)
    THEN ViewResult(Response(501, ErrorBody(FeatureName), <<>>), store)
    ELSE result

\* permission_classes = [IsAuthenticated, HasStudioWriteAccess], checked in
\* this order by APIView.check_permissions: the status of the refusal, 0 when
\* the request is let through
IsAuthenticated(user) == user # Anonymous
HasStudioWriteAccess(user, course_id) == <<user, course_id>> \in StudioWriteAccess

check_permissions_authenticated_only(user, course_id) ==
    IF ~IsAuthenticated(user) THEN 401 ELSE 0

check_permissions(user, course_id) ==
    IF ~IsAuthenticated(user) THEN 401
    ELSE IF ~HasStudioWriteAccess(user, course_id) THEN 403
    ELSE 0

\* APIView.dispatch: authentication and permissions, then the decorated handler
dispatched(refusal, request, features, store) ==
    IF refusal = 401
    THEN ViewResult(Response(401, ErrorBody("not_authenticated"), <<>>), store)
    ELSE IF refusal = 403
    THEN ViewResult(Response(403, ErrorBody("permission_denied"), <<>>), store)
    ELSE require_feature_enabled(features, handler(request, store), store)

dispatch(request, features, store) ==
    dispatched(check_permissions(request.user, request.course_id), request, features, store)

\* request bodies: a valid record, the record with one field replaced, and
\* the record with two fields in error
Repeat(ch, n) == [i \in 1..n |-> ch]

MetaWith(trainer, code, activity, mandatory, approve) ==
    [Meta(code, activity, mandatory, approve) EXCEPT !["trainer_type"] = trainer]

ActivityInputs ==
    { Absent, None, PyInt(165), PyStr(<<"1", "6", "5">>), PyStr(<<"1", ".", "0">>),
      PyStr(<<" ", "7", " ">>), PyStr(<<"1", ".", "5">>), PyStr(<<"x">>), PyStr(<<>>),
      PyBool(TRUE) }
FlagInputs ==
    { Absent, None, PyStr(<<"0", "0">>), PyStr(<<" ", "0", "1">>), PyStr(<<"1">>),
      PyStr(<<"0">>), PyStr(<<"i", "n", "v", "a", "l", "i", "d">>), PyStr(<<>>), PyInt(1),
      PyBool(TRUE) }
ApproveInputs == { Absent, PyStr(<<"0", "0">>), PyStr(<<"1">>), PyStr(<<"0", "1", " ">>) }
CodeInputs ==
    { Absent, None, PyStr(<<>>), PyStr(<<" ", " ", " ">>), PyStr(<<" ", "P", "1", " ">>),
      PyStr(Repeat("A", ProgramCodeMaxLength)),
      PyStr(Repeat("A", ProgramCodeMaxLength) \o <<" ">>),
      PyStr(Repeat("A", ProgramCodeMaxLength + 1)), PyInt(123), PyBool(FALSE) }
TrainerInputs == { Absent, PyInt(99), PyStr(<<"x">>) }

BaseBody ==
    MetaWith(PyInt(10), PyStr(<<"T", "E", "S", "T", "0", "0", "1">>), PyInt(1),
             PyStr(<<"0", "1">>), PyStr(<<"0", "1">>))

RequestBodies ==
    {BaseBody}
        \cup {[BaseBody EXCEPT !["type_of_activity"] = v] : v \in ActivityInputs}
        \cup {[BaseBody EXCEPT !["mandatory"] = v] : v \in FlagInputs}
        \cup {[BaseBody EXCEPT !["program_approve"] = v] : v \in ApproveInputs}
        \cup {[BaseBody EXCEPT !["program_code"] = v] : v \in CodeInputs}
        \cup {[BaseBody EXCEPT !["trainer_type"] = v] : v \in TrainerInputs}
        \cup {[BaseBody EXCEPT !["mandatory"] = PyStr(<<"i", "n", "v", "a", "l", "i", "d">>),
                               !["program_code"] = PyStr(<<>>)],
              EmptyMeta}

\* what a course may hold under program_metadata_v1 before any request:
\* nothing, the empty mapping, null, a record as POST writes it, records
\* written by other means that validate or do not, and a value that is no mapping
StoredBeforeRequests ==
    { Absent, PyDict(EmptyMeta), None, PyDict(BaseBody),
      PyDict(Meta(PyStr(<<" ", "P", "1", " ">>), PyStr(<<"1", "6", "5">>), PyStr(<<"0", "0">>),
                  PyStr(<<" ", "0", "1">>))),
      PyDict(MetaWith(PyInt(99), PyStr(<<"L", "1">>), PyInt(3), PyStr(<<"0", "1">>),
                      PyStr(<<"0", "0">>))),
      PyDict([BaseBody EXCEPT !["mandatory"] = PyStr(<<"i", "n", "v", "a", "l", "i", "d">>)]),
      PyDict(ProgramDataA),
      PyStr(<<"x">>) }

MaxPosts == 1

\* one request to /metadata/{course_id}, from dispatch to the response
MetadataRequest(request) ==
    /\ meta_request' = request
    /\ meta_response' = dispatch(request, FEATURES, other_course_settings).response
    /\ other_course_settings' = dispatch(request, FEATURES, other_course_settings).store
    /\ UNCHANGED FEATURES

MetadataGet(user, course_id) ==
    /\ MetadataRequest([method |-> "GET", user |-> user, course_id |-> course_id,
                        data |-> None])
    /\ UNCHANGED post_count

MetadataPost(user, course_id, body) ==
    /\ post_count < MaxPosts
    /\ MetadataRequest([method |-> "POST", user |-> user, course_id |-> course_id,
                        data |-> PyDict(body)])
    /\ post_count' = post_count + 1

InitMeta ==
    /\ \E m1 \in StoredBeforeRequests :
          other_course_settings =
              [c \in CourseIds |-> IF c = <<"c", "1">> THEN Settings(m1, PyStr(<<"x">>))
                                                       ELSE Settings(PyDict(ProgramDataC), Absent)]
    /\ StoreIdle
    /\ PureIdle
    /\ FEATURES \in {Absent, PyBool(FALSE), PyBool(TRUE)}
    /\ post_count = 0 /\ meta_request = NoRequest /\ meta_response = NoResponse
    /\ ListIdle /\ CertIdle /\ ExtIdle

NextMeta ==
    \/ \E u \in {Anonymous} \cup UserIds, c \in RequestCourseIds :
          /\ MetadataGet(u, c)
          /\ UNCHANGED <<pc, call, course_block, update_item_calls, returned, get_ret,
                         hmsVars, isoVars, lookupVars, listVars, certVars, extVars>>
    \/ \E u \in {Anonymous} \cup UserIds, c \in RequestCourseIds, b \in RequestBodies :
          /\ MetadataPost(u, c, b)
          /\ UNCHANGED <<pc, call, course_block, update_item_calls, returned, get_ret,
                         hmsVars, isoVars, lookupVars, listVars, certVars, extVars>>

SpecMeta == InitMeta /\ [][NextMeta]_vars

----------------------------------------------------------------------------
(* Views: ProgramsListView, /program-lookup *)

\* eox_nelp.utils.is_valid_national_id: digits only, 10 to 15 of them
MinNationalIdLength == 10
MaxNationalIdLength == 15
is_valid_national_id(national_id) ==
    /\ \A i \in 1..Len(national_id) : national_id[i] \in DigitChars
    /\ Len(national_id) >= MinNationalIdLength
    /\ Len(national_id) <= MaxNationalIdLength

\* a national id of n digits
NationalId(n) == [i \in 1..n |-> Digits[(i % 10) + 1]]

\* national ids that extrainfo may hold, and what a request may send
KnownNationalIds == {NationalId(MinNationalIdLength), NationalId(MaxNationalIdLength)}
RequestNationalIds ==
    {Absent, PyStr(<<>>)}
        \cup {PyStr(NationalId(n)) : n \in {MinNationalIdLength - 1, MinNationalIdLength,
                                           MaxNationalIdLength, MaxNationalIdLength + 1}}
        \cup {PyStr(NationalId(MinNationalIdLength - 1) \o <<"a">>)}

\* roles of the platform: GlobalStaff, and OrgInstructorRole for an org
Role(user, role, org) == [user |-> user, role |-> role, org |-> org]
Nelc == PyStr(<<"n", "e", "l", "c">>)
LookupRoles == {Role(7, "GlobalStaff", None), Role(8, "OrgInstructorRole", Nelc)}

\* ProgramsLookupPermission.has_permission, lines 31-34
ProgramsLookupPermission(user, org, roles) ==
    \/ Role(user, "GlobalStaff", None) \in roles
    \/ Role(user, "OrgInstructorRole", IF org = Absent THEN None ELSE org) \in roles

check_lookup_permissions(user, org, roles) ==
    IF ~IsAuthenticated(user) THEN 401
    ELSE IF ~ProgramsLookupPermission(user, org, roles) THEN 403
    ELSE 0

ListBody(error, message, results) ==
    [error |-> error, message |-> message, results |-> results]

\* a response of the view, with the queries made for it and the filtered
\* queryset that list() handed to the serializer
ListResponse(status, body, calls, queryset) ==
    [status |-> status, body |-> body, calls |-> calls, queryset |-> queryset]

\* CourseDetailSerializer(course).data of the two courses of the platform: the
\* first has a start date and no end date, the second has neither
CourseDetail(c) ==
    ApiRecord(PyStr(c), PyStr(<<"T", "e", "s", "t">>),
              IF c = <<"c", "1">>
              THEN PyStr(<<"2", "0", "3", "0", "-", "0", "1", "-", "0", "1", "T",
                           "0", "0", ":", "0", "0", ":", "0", "0", "Z">>)
              ELSE None,
              None, PyStr(<<"5", ":", "0", "0">>))

Query(name, user, course_id) == [name |-> name, user |-> user, course_id |-> course_id]

\* get_queryset, lines 205-209: one course of the loop, then the rest of it
queryset_item_unfiltered(out, c, rest, user, enrolled) ==
    IF out.raised # "none" THEN [exc |-> out.raised, items |-> <<>>, calls |-> <<>>]
    ELSE [exc |-> rest.exc,
          items |-> <<out.ret.d>> \o rest.items,
          calls |-> <<Query("is_enrolled", user, out.ret.d["code"].s)>> \o rest.calls]

queryset_item(out, c, rest, user, enrolled) ==
    IF out.raised # "none" THEN [exc |-> out.raised, items |-> <<>>, calls |-> <<>>]
    ELSE [exc |-> rest.exc,
          items |-> (IF <<user, out.ret.d["code"].s>> \in enrolled
                     THEN <<out.ret.d>> ELSE <<>>) \o rest.items,
          calls |-> <<Query("is_enrolled", user, out.ret.d["code"].s)>> \o rest.calls]

RECURSIVE program_queryset(_, _, _, _)
program_queryset(visible, user, enrolled, store) ==
    IF visible = <<>> THEN [exc |-> "none", items |-> <<>>, calls |-> <<>>]
    ELSE queryset_item(get_program_lookup_representation(CourseDetail(Head(visible)), store).out,
                       Head(visible), program_queryset(Tail(visible), user, enrolled, store),
                       user, enrolled)

\* get_queryset, lines 203-211
get_queryset(user, p, store) ==
    [program_queryset(p.visible[user], user, p.enrolled, store) EXCEPT
        !.calls = <<Query("get_courses", user, <<>>)>> \o @]

IsEnrolledIn(user, enrolled, program_data) == <<user, program_data["code"].s>> \in enrolled

\* filter_queryset, lines 219-226
filter_queryset(queryset, is_enrolled, user, enrolled) ==
    IF DictGet([k \in {"is_enrolled"} |-> is_enrolled], "is_enrolled",
               PyStr(<<"t", "r", "u", "e">>)) = PyStr(<<"t", "r", "u", "e">>)
    THEN SelectSeq(queryset, LAMBDA program_data : IsEnrolledIn(user, enrolled, program_data))
    ELSE queryset

filter_calls(queryset, is_enrolled, user) ==
    IF is_enrolled \in {Absent, PyStr(<<"t", "r", "u", "e">>)}
    THEN [i \in 1..Len(queryset) |-> Query("is_enrolled", user, queryset[i]["code"].s)]
    ELSE <<>>

\* ProgramLookupSerializer.to_representation of one item: a required field
\* without default that the item does not hold raises KeyError
SerializerKeys == (RecordKeys \ {"data_start", "data_start_hijri"}) \cup {"certificate_url"}
RequiredLookupFields ==
    {"program_name", "program_code", "type_of_activity", "type_of_activity_id", "mandatory",
     "program_approve", "code", "date_start", "date_end", "date_start_hijri", "date_end_hijri"}

lookup_to_representation(program) ==
    [k \in SerializerKeys |-> IF k = "certificate_url" THEN None ELSE program[k]]

\* ListAPIView.list on the filtered queryset: the serialized page, 200
list_serialized(queryset, calls) ==
    IF \E i \in 1..Len(queryset) : \E k \in RequiredLookupFields : queryset[i][k] = Absent
    THEN ListResponse(500, ListBody("KeyError", None, <<>>), calls, queryset)
    ELSE ListResponse(200, ListBody("", None,
                          [i \in 1..Len(queryset) |-> lookup_to_representation(queryset[i])]),
                      calls, queryset)

list_queryset(qs, is_enrolled, user, enrolled, calls) ==
    IF qs.exc # "none"
    THEN ListResponse(500, ListBody(qs.exc, None, <<>>), calls \o qs.calls, <<>>)
    ELSE list_serialized(filter_queryset(qs.items, is_enrolled, user, enrolled),
                         calls \o qs.calls \o filter_calls(qs.items, is_enrolled, user))

\* ProgramsListView.get, lines 172-175, once request.user_by_national_id is set
ProgramsListView_list(request, user_by_national_id, p, store, calls) ==
    list_queryset(get_queryset(user_by_national_id, p, store), request.is_enrolled,
                  user_by_national_id, p.enrolled, calls)

\* get_object_or_404(User, extrainfo__national_id=national_id): 0 for no user
user_by_national_id(national_id, extrainfo) ==
    IF national_id \in DOMAIN extrainfo THEN extrainfo[national_id] ELSE 0

\* require_national_id_query_param, lines 58-75, around the handler
national_id_resolved(request, user, p, store) ==
    IF user = 0
    THEN ListResponse(404, ListBody("Http404", None, <<>>),
                      <<Query("get_object_or_404", 0, <<>>)>>, <<>>)
    ELSE ProgramsListView_list(request, user, p, store,
                               <<Query("get_object_or_404", user, <<>>)>>)

require_national_id_resolving_first(request, p, store) ==
    IF ~Truthy(request.national_id)
    THEN ListResponse(400, ListBody("MISSING_NATIONAL_ID", None, <<>>), <<>>, <<>>)
    ELSE IF user_by_national_id(request.national_id.s, p.extrainfo) = 0
    THEN ListResponse(404, ListBody("Http404", None, <<>>),
                      <<Query("get_object_or_404", 0, <<>>)>>, <<>>)
    ELSE IF ~is_valid_national_id(request.national_id.s)
    THEN ListResponse(422, ListBody("INVALID_NATIONAL_ID", None, <<>>), <<>>, <<>>)
    ELSE national_id_resolved(request,
             user_by_national_id(request.national_id.s, p.extrainfo), p, store)

require_national_id_query_param(request, p, store) ==
    IF ~Truthy(request.national_id)
    THEN ListResponse(400, ListBody("MISSING_NATIONAL_ID", None, <<>>), <<>>, <<>>)
    ELSE IF ~is_valid_national_id(request.national_id.s)
    THEN ListResponse(422, ListBody("INVALID_NATIONAL_ID", None, <<>>), <<>>, <<>>)
    ELSE national_id_resolved(request,
             user_by_national_id(request.national_id.s, p.extrainfo), p, store)

\* finalize_response, lines 181-191; it is not reached by an unhandled exception
finalize_response(request, response) ==
    IF /\ Truthy(request.national_id)
       /\ \/ response.status = 404
          \/ response.status = 200 /\ response.body.results = <<>>
    THEN ListResponse(404, ListBody("NO_PROGRAM_FOR_NATIONAL_ID", request.national_id, <<>>),
                      response.calls, response.queryset)
    ELSE response

\* APIView.dispatch of GET /program-lookup
list_dispatched(refusal, request, p, store) ==
    IF refusal = 401
    THEN finalize_response(request,
             ListResponse(401, ListBody("not_authenticated", None, <<>>), <<>>, <<>>))
    ELSE IF refusal = 403
    THEN finalize_response(request,
             ListResponse(403, ListBody("permission_denied", None, <<>>), <<>>, <<>>))
    ELSE finalize_response(request, require_national_id_query_param(request, p, store))

list_dispatch(request, p, store) ==
    list_dispatched(check_lookup_permissions(request.user, request.org, p.lookup_roles),
                    request, p, store)

\* orders in which get_courses may list what a user sees
VisibleChoices == {<<>>, <<(<<"c", "1">>)>>, <<(<<"c", "1">>), (<<"c", "2">>)>>}

\* one GET /program-lookup, from dispatch to the response
ProgramsListGet(user, national_id, is_enrolled, org) ==
    /\ list_request' = [user |-> user, national_id |-> national_id,
                        is_enrolled |-> is_enrolled, org |-> org]
    /\ list_response' =
          list_dispatch([user |-> user, national_id |-> national_id,
                         is_enrolled |-> is_enrolled, org |-> org],
                        platform, other_course_settings)
    /\ UNCHANGED platform

InitList ==
    /\ other_course_settings =
          [c \in CourseIds |-> IF c = <<"c", "1">> THEN Settings(PyDict(ProgramDataC), Absent)
                                                   ELSE Settings(Absent, Absent)]
    /\ StoreIdle
    /\ PureIdle
    /\ MetaIdle /\ CertIdle /\ ExtIdle
    /\ \E owner \in [KnownNationalIds -> {0, 8}], seen \in VisibleChoices,
          enrolled \in SUBSET ({8} \X CourseIds) :
          platform = [extrainfo |-> owner,
                      visible |-> [u \in UserIds |->
                                      IF u = 8 THEN seen
                                      ELSE <<(<<"c", "1">>), (<<"c", "2">>)>>],
                      enrolled |-> enrolled \cup {<<7, <<"c", "2">>>>},
                      lookup_roles |-> LookupRoles]
    /\ list_request = NoListRequest /\ list_response = NoResponse

NextList ==
    \E u \in {Anonymous} \cup UserIds, n \in RequestNationalIds,
       ie \in {Absent, PyStr(<<"t", "r", "u", "e">>), PyStr(<<"f", "a", "l", "s", "e">>)},
       org \in {Absent, Nelc} :
        /\ ProgramsListGet(u, n, ie, org)
        /\ UNCHANGED <<storeVars, hmsVars, isoVars, lookupVars, metaVars, certVars, extVars>>

SpecList == InitList /\ [][NextList]_vars

----------------------------------------------------------------------------
(* Signals: _generate_external_certificate_data *)

\* usernames of auth_user by id: the ten digits of a national id, or the
\* eight digits of the user of the tests
TestUsername == <<"1", "0", "0", "2", "4", "5", "7", "8">>
UsernameLength == 10

\* user.username[:10], line 38
national_id_of(username) ==
    SubSeq(username, 1, IF Len(username) < UsernameLength THEN Len(username)
                        ELSE UsernameLength)

\* float(grade): a number, or a text of digits; the empty text of a
\* certificate without grade is no number
py_float(grade) ==
    IF grade.t = "int" THEN [exc |-> "none", v |-> grade.i]
    ELSE IF grade.t = "str" THEN py_int(grade.s)
    ELSE [exc |-> "TypeError", v |-> 0]

\* generate_reference_id, lines 81-83
generate_reference_id(national_id, course_id) ==
    IF ~is_valid_national_id(national_id) THEN Raises("ValueError", <<>>)
    ELSE Returns(PyStr(national_id \o <<"~">> \o course_id), <<>>)

\* getattr(settings, "EXTERNAL_CERTIFICATES_GROUP_CODES", {})
group_codes(settings) ==
    IF settings.group_codes = Absent THEN [c \in CourseIds |-> Absent]
    ELSE settings.group_codes.d

CertificateKeys ==
    {"reference_id", "created_at", "expiration_date", "grade", "is_passing", "group_code",
     "user"}
GradeScale == 100

\* the dict literal of lines 40-52, its entries evaluated in the order written
certificate_literal(reference_id, grade, group_code, national_id, time, is_passing) ==
    IF reference_id.raised # "none" THEN Raises(reference_id.raised, <<>>)
    ELSE IF grade.exc # "none" THEN Raises(grade.exc, <<>>)
    ELSE IF group_code = Absent THEN Raises("KeyError", <<>>)
    ELSE Returns(PyDict([k \in CertificateKeys |->
             CASE k = "reference_id" -> reference_id.ret
               [] k = "created_at" -> PyStr(isoformat(time[1], time[2], time[3]))
               [] k = "expiration_date" -> None
               [] k = "grade" -> PyInt(grade.v * GradeScale)
               [] k = "is_passing" -> PyBool(is_passing)
               [] k = "group_code" -> group_code
               [] k = "user" -> PyStr(national_id)]), <<>>)

\* _generate_external_certificate_data(time, certificate_data), lines 34-52
generate_external_certificate_data(event, settings) ==
    IF event.user_id \notin DOMAIN settings.users THEN Raises("DoesNotExist", <<>>)
    ELSE certificate_literal(
             generate_reference_id(
                 national_id_of(settings.users[event.user_id]), event.course_key),
             py_float(event.grade), group_codes(settings)[event.course_key],
             national_id_of(settings.users[event.user_id]), event.time,
             <<event.user_id, event.course_key>> \in settings.passed)

\* dates of certificate events, as year, month and day
CertificateDates == {<<2023, 3, 1>>, <<2024, 2, 29>>, <<2024, 12, 31>>, <<2025, 1, 1>>}
GroupCodeSettings ==
    { Absent,
      PyDict([c \in CourseIds |-> IF c = <<"c", "1">> THEN PyStr(<<"A", "B", "C">>) ELSE Absent]),
      PyDict([c \in CourseIds |-> PyStr(<<"A", "B", "C">>)]) }

\* one call of _generate_external_certificate_data
GenerateExternalCertificateData ==
    /\ certificate_out = NotCalled
    /\ certificate_out' = generate_external_certificate_data(certificate_event,
                                                            certificate_settings)
    /\ UNCHANGED <<certificate_settings, certificate_event>>

InitCert ==
    /\ other_course_settings = [c \in CourseIds |-> Settings(Absent, Absent)]
    /\ StoreIdle
    /\ PureIdle
    /\ MetaIdle /\ ListIdle /\ ExtIdle
    /\ \E codes \in GroupCodeSettings, passed \in {{}, UserIds \X CourseIds},
          name \in {NationalId(UsernameLength), NationalId(UsernameLength + 2)} :
          certificate_settings =
              [group_codes |-> codes, passed |-> passed,
               users |-> [u \in UserIds |-> IF u = 7 THEN name ELSE TestUsername]]
    /\ \E time \in CertificateDates, u \in UserIds \cup {9}, c \in CourseIds,
          grade \in {PyInt(15), PyInt(0), PyStr(<<>>)} :
          certificate_event = [time |-> time, user_id |-> u, course_key |-> c, grade |-> grade]
    /\ certificate_out = NotCalled

NextCert ==
    /\ GenerateExternalCertificateData
    /\ UNCHANGED <<storeVars, hmsVars, isoVars, lookupVars, metaVars, listVars, extVars>>

SpecCert == InitCert /\ [][NextCert]_vars

----------------------------------------------------------------------------
(* SAML bulk template: the slug of a site *)

\* sep.join(parts)
RECURSIVE str_join(_, _)
str_join(sep, parts) ==
    IF parts = <<>> THEN <<>>
    ELSE IF Len(parts) = 1 THEN parts[1]
    ELSE parts[1] \o sep \o str_join(sep, Tail(parts))

\* SAMLBulkTemplateConfiguration.generate_slug_for_site, on site.domain and
\* self.slug_suffix
generate_slug_keeping_tld(domain, suffix) ==
    LET domain_parts == Split(domain, ".")
        slug == str_join(<<"-">>, domain_parts)
    IN  slug \o <<"-">> \o suffix

generate_slug_for_site(domain, suffix) ==
    LET domain_parts == Split(domain, ".")
        base_parts == IF Len(domain_parts) > 1
                      THEN SubSeq(domain_parts, 1, Len(domain_parts) - 1)
                      ELSE domain_parts
        slug == str_join(<<"-">>, base_parts)
    IN  slug \o <<"-">> \o suffix

MaxDomainLen == 4

RECURSIVE SeqsUpTo(_, _)
SeqsUpTo(S, n) ==
    IF n = 0 THEN {<<>>}
    ELSE LET shorter == SeqsUpTo(S, n - 1)
         IN  shorter \cup {Append(q, x) : q \in shorter, x \in S}

LmsSso == <<"l", "m", "s", "-", "s", "s", "o">>
BcFuturexSa == <<"b", "c", ".", "f", "u", "t", "u", "r", "e", "x", ".", "s", "a">>
AbcExampleSa == <<"a", "b", "c", ".", "e", "x", "a", "m", "p", "l", "e", ".", "s", "a">>
Localhost == <<"l", "o", "c", "a", "l", "h", "o", "s", "t">>

\* site domains: the domains of the tests, and every string of labels and dots
\* up to MaxDomainLen characters (empty labels, leading and trailing dots)
SiteDomains ==
    {BcFuturexSa, AbcExampleSa, Localhost} \cup SeqsUpTo({"a", "-", "."}, MaxDomainLen)

SlugSuffixes == {LmsSso, <<"x">>, <<>>}

GenerateSlugForSite ==
    /\ slug_out = NotCalled
    /\ slug_out' = Returns(PyStr(generate_slug_for_site(site_domain, slug_suffix)), "none")
    /\ UNCHANGED <<site_domain, slug_suffix>>

InitSlug ==
    /\ other_course_settings = [c \in CourseIds |-> Settings(Absent, Absent)]
    /\ StoreIdle
    /\ PureIdle
    /\ MetaIdle /\ ListIdle /\ CertIdle
    /\ SamlIdle /\ PatchIdle /\ TaskIdle
    /\ site_domain \in SiteDomains
    /\ slug_suffix \in SlugSuffixes
    /\ slug_out = NotCalled

NextSlug ==
    /\ GenerateSlugForSite
    /\ UNCHANGED <<storeVars, hmsVars, isoVars, lookupVars, metaVars, listVars, certVars,
                   samlVars, patchVars, taskVars>>

SpecSlug == InitSlug /\ [][NextSlug]_vars

----------------------------------------------------------------------------
(* SAML bulk template: applying the template to sites *)

Sites == {1, 2}

\* Site.domain of the two sites of test_models.py
SiteDomain(site) == IF site = 1 THEN BcFuturexSa ELSE AbcExampleSa

\* Site.Meta.ordering is ("domain",): "abc.example.sa" sorts before "bc.futurex.sa"
SitesByDomain == <<2, 1>>

\* list(queryset) of the sites whose pk is in pks
site_queryset(pks) == SelectSeq(SitesByDomain, LAMBDA s : s \in pks)

DefaultSlug == <<"d", "e", "f", "a", "u", "l", "t">>
HttpsSaml == <<"h", "t", "t", "p", "s", ":", "/", "/", "s", "a", "m", "l", ".">>

generate_configuration_entity_id_for_site(site) == HttpsSaml \o SiteDomain(site)

\* one ORM call or signal, as the operation's trace records it
OrmCall(op, site, slug, obj, created, action, pk_set) ==
    [op |-> op, site |-> site, slug |-> slug, obj |-> obj, created |-> created,
     action |-> action, pk_set |-> pk_set]

Logged(db, c) == [db EXCEPT !.calls = Append(@, c)]

\* ConfigurationModel.objects.current_set(): of the rows sharing the values of
\* KEY_FIELDS, the newest one; keys[i] holds the KEY_FIELDS values of row i
current_set(keys) ==
    {i \in 1..Len(keys) : \A j \in (i + 1)..Len(keys) : keys[j] # keys[i]}

\* SAMLConfiguration.KEY_FIELDS = ("site_id", "slug")
SAMLConfigurationKey(rows) == [i \in 1..Len(rows) |-> <<rows[i].site, rows[i].slug>>]

\* SAMLProviderConfig.KEY_FIELDS = ("slug",)
SAMLProviderConfigKey(rows) == [i \in 1..Len(rows) |-> rows[i].slug]

\* queryset.update_or_create(**lookup, defaults=...): the matching row gets
\* the defaults, and without a match a row of lookup and defaults is created
update_or_create(rows, found, row) ==
    IF found = {} THEN Append(rows, row)
    ELSE [rows EXCEPT ![CHOOSE i \in found : TRUE] = row]

updated_or_created(rows, found) ==
    IF found = {} THEN Len(rows) + 1 ELSE CHOOSE i \in found : TRUE

saml_configuration_stored(db, row, found) ==
    Logged([db EXCEPT !.saml_configuration = update_or_create(@, found, row)],
           OrmCall("SAMLConfiguration.update_or_create", row.site, row.slug,
                   updated_or_created(db.saml_configuration, found), found = {}, "", {}))

saml_configuration_row(db, site, slug) ==
    [site |-> site, slug |-> slug, enabled |-> TRUE,
     changed_by |-> db.template.changed_by,
     entity_id |-> generate_configuration_entity_id_for_site(site),
     other_config_str |-> db.template.other_config_str,
     is_public |-> TRUE]

saml_configuration_lookup(db, site, slug) ==
    saml_configuration_stored(db, saml_configuration_row(db, site, slug),
        {i \in current_set(SAMLConfigurationKey(db.saml_configuration)) :
            /\ db.saml_configuration[i].site = site
            /\ db.saml_configuration[i].slug = slug})

\* SAMLBulkTemplateConfiguration._create_or_update_saml_configuration
create_or_update_saml_configuration(db, site, slug) ==
    saml_configuration_lookup(db, site,
        IF db.template.use_default_saml_configuration_slug THEN DefaultSlug ELSE slug)

provider_configuration_stored(db, row, found) ==
    Logged([db EXCEPT !.saml_provider_config = update_or_create(@, found, row)],
           OrmCall("SAMLProviderConfig.update_or_create", row.site, row.slug,
                   updated_or_created(db.saml_provider_config, found), found = {}, "", {}))

provider_configuration_row(db, site, slug, saml_config) ==
    [site |-> site, slug |-> slug, enabled |-> TRUE,
     name |-> db.template.name,
     changed_by |-> db.template.changed_by,
     archived |-> db.template.archived,
     saml_configuration |-> saml_config]

\* the lookup of lines 384-389: site=site, archived=False, slug=slug
provider_lookup(db, site, slug) ==
    {i \in current_set(SAMLProviderConfigKey(db.saml_provider_config)) :
        /\ db.saml_provider_config[i].site = site
        /\ db.saml_provider_config[i].archived = FALSE
        /\ db.saml_provider_config[i].slug = slug}

\* SAMLBulkTemplateConfiguration._create_or_update_provider_configuration
create_or_update_provider_configuration(db, site, slug, saml_config) ==
    provider_configuration_stored(db,
        provider_configuration_row(db, site, slug, saml_config),
        provider_lookup(db, site, slug))

\* the object the last update_or_create returned
LastObj(db) == db.calls[Len(db.calls)].obj

\* apply_to_sites lines 399-402, one iteration with the slug of line 399
configured_first_of_table(db, site, slug) ==
    create_or_update_provider_configuration(db, site, slug, 1)

configured(db, site, slug) ==
    create_or_update_provider_configuration(db, site, slug, LastObj(db))

apply_to_site(db, site, slug) ==
    configured(create_or_update_saml_configuration(db, site, slug), site, slug)

\* SAMLBulkTemplateConfiguration.apply_to_sites
RECURSIVE apply_to_sites(_, _)
apply_to_sites(db, sites) ==
    IF sites = <<>> THEN db
    ELSE apply_to_sites(
            apply_to_site(db, Head(sites),
                generate_slug_for_site(SiteDomain(Head(sites)), db.template.slug_suffix)),
            Tail(sites))

\* SAMLBulkTemplateConfiguration.save: super().save(), then
\* apply_to_sites(list(self.sites.all()))
save_without_applying(db, instance) ==
    Logged([db EXCEPT !.template = instance],
           OrmCall("save", 0, <<>>, 0, FALSE, "", {}))

save(db, instance) ==
    apply_to_sites(
        Logged(Logged([db EXCEPT !.template = instance],
                      OrmCall("save", 0, <<>>, 0, FALSE, "", {})),
               OrmCall("sites.all", 0, <<>>, 0, FALSE, "", db.sites)),
        site_queryset(db.sites))

\* receivers.apply_sites_when_m2m_changes
apply_sites_on_every_action(db, action, pk_set) ==
    apply_to_sites(Logged(db, OrmCall("Site.objects.filter", 0, <<>>, 0, FALSE, "", pk_set)),
                   site_queryset(pk_set))

apply_sites_when_m2m_changes(db, action, pk_set) ==
    IF action = "post_add"
    THEN apply_to_sites(
            Logged(db, OrmCall("Site.objects.filter", 0, <<>>, 0, FALSE, "", pk_set)),
            site_queryset(pk_set))
    ELSE db

\* m2m_changed.send(sender=sites.through, instance=template, action=..., pk_set=...)
m2m_changed(db, action, pk_set) ==
    apply_sites_when_m2m_changes(
        Logged(db, OrmCall("m2m_changed", 0, <<>>, 0, FALSE, action, pk_set)),
        action, pk_set)

with_sites(db, sites) == [db EXCEPT !.sites = sites]

\* template.sites.add(*objs): the signals carry the ids not related yet
sites_add(db, pks) ==
    IF pks = {} THEN db
    ELSE m2m_changed(
            with_sites(m2m_changed(db, "pre_add", pks \ db.sites), db.sites \cup pks),
            "post_add", pks \ db.sites)

\* template.sites.remove(*objs)
sites_remove(db, pks) ==
    IF pks = {} THEN db
    ELSE m2m_changed(
            with_sites(m2m_changed(db, "pre_remove", pks), db.sites \ pks),
            "post_remove", pks)

\* template.sites.clear(): the signals carry no pk_set
sites_clear(db) ==
    m2m_changed(with_sites(m2m_changed(db, "pre_clear", {}), {}), "post_clear", {})

\* template.sites.set(objs): remove what is not among objs, add what is new
sites_set(db, pks) ==
    sites_add(sites_remove(db, db.sites \ pks), pks \ db.sites)

\* SAMLBulkTemplateConfigurationAdmin.save_model
save_model(db, user, obj) == save(db, [obj EXCEPT !.changed_by = user])

\* ModelAdmin change view: save_model(obj), then save_related -> form.save_m2m()
changeform_view(db, user, obj, sites) == sites_set(save_model(db, user, obj), sites)

MaxSamlOps == 2

ValuesA == [name |-> "A", other_config_str |-> "{}"]
ValuesB == [name |-> "B", other_config_str |-> "{\"x\": 1}"]
TemplateValues == {ValuesA, ValuesB}

Template(values, changed_by, use_default, archived) ==
    [name |-> values.name, other_config_str |-> values.other_config_str,
     changed_by |-> changed_by, slug_suffix |-> LmsSso,
     use_default_saml_configuration_slug |-> use_default, archived |-> archived]

\* the instance with values assigned to its fields
Assigned(template, values, use_default, archived) ==
    [template EXCEPT !.name = values.name, !.other_config_str = values.other_config_str,
                     !.use_default_saml_configuration_slug = use_default,
                     !.archived = archived]

Started(db) == [db EXCEPT !.calls = <<>>]

SamlOp(op, sites, pk_set, user) == [op |-> op, sites |-> sites, pk_set |-> pk_set, user |-> user]

SamlStep(db, op) ==
    /\ saml_ops < MaxSamlOps
    /\ saml_db' = db
    /\ saml_op' = op
    /\ saml_ops' = saml_ops + 1

\* template.<field> = ...; template.save()
TemplateSave(values, use_default, archived) ==
    SamlStep(save(Started(saml_db),
                  Assigned(saml_db.template, values, use_default, archived)),
             SamlOp("save", <<>>, {}, 0))

\* template.apply_to_sites(sites)
ApplyToSites(sites) ==
    SamlStep(apply_to_sites(Started(saml_db), sites), SamlOp("apply_to_sites", sites, {}, 0))

SitesAdd(pks) == SamlStep(sites_add(Started(saml_db), pks), SamlOp("add", <<>>, pks, 0))

SitesRemove(pks) == SamlStep(sites_remove(Started(saml_db), pks), SamlOp("remove", <<>>, pks, 0))

SitesClear == SamlStep(sites_clear(Started(saml_db)), SamlOp("clear", <<>>, {}, 0))

\* a submission of the admin change form by user
AdminChange(user, values, use_default, archived, sites) ==
    SamlStep(changeform_view(Started(saml_db), user,
                             Assigned(saml_db.template, values, use_default, archived),
                             sites),
             SamlOp("admin", <<>>, sites, user))

SiteLists == {<<>>, <<1>>, <<2>>, <<1, 2>>, <<2, 1>>}

\* the template as SAMLBulkTemplateConfiguration.objects.create(...) leaves it:
\* saved, related to no site
InitSaml ==
    /\ other_course_settings = [c \in CourseIds |-> Settings(Absent, Absent)]
    /\ StoreIdle
    /\ PureIdle
    /\ MetaIdle /\ ListIdle /\ CertIdle
    /\ SlugIdle /\ PatchIdle /\ TaskIdle
    /\ \E use_default \in BOOLEAN, archived \in BOOLEAN :
          saml_db = [NoSamlDb EXCEPT !.template = Template(ValuesA, 7, use_default, archived)]
    /\ saml_op = NoSamlOp
    /\ saml_ops = 0

NextSaml ==
    /\ \/ \E values \in TemplateValues, use_default \in BOOLEAN, archived \in BOOLEAN :
             TemplateSave(values, use_default, archived)
       \/ \E sites \in SiteLists : ApplyToSites(sites)
       \/ \E pks \in SUBSET Sites : SitesAdd(pks)
       \/ \E pks \in SUBSET Sites : SitesRemove(pks)
       \/ SitesClear
       \/ \E user \in UserIds, values \in TemplateValues, use_default \in BOOLEAN,
             archived \in BOOLEAN, sites \in SUBSET Sites :
             AdminChange(user, values, use_default, archived, sites)
    /\ UNCHANGED <<storeVars, hmsVars, isoVars, lookupVars, metaVars, listVars, certVars,
                   slugVars, patchVars, taskVars>>

SpecSaml == InitSaml /\ [][NextSaml]_vars

----------------------------------------------------------------------------
(* Registration form fields: form_field_getattr_patch *)

LowerCase == <<"a", "b", "c", "d", "e", "f", "g", "h", "i", "j", "k", "l", "m",
               "n", "o", "p", "q", "r", "s", "t", "u", "v", "w", "x", "y", "z">>
UpperCase == <<"A", "B", "C", "D", "E", "F", "G", "H", "I", "J", "K", "L", "M",
               "N", "O", "P", "Q", "R", "S", "T", "U", "V", "W", "X", "Y", "Z">>

\* c.upper() and c.lower() of one character
char_upper(c) ==
    IF \E i \in 1..26 : LowerCase[i] = c
    THEN UpperCase[CHOOSE i \in 1..26 : LowerCase[i] = c] ELSE c

char_lower(c) ==
    IF \E i \in 1..26 : UpperCase[i] = c
    THEN LowerCase[CHOOSE i \in 1..26 : UpperCase[i] = c] ELSE c

\* cs.capitalize()
capitalize(cs) == [i \in 1..Len(cs) |-> IF i = 1 THEN char_upper(cs[i]) ELSE char_lower(cs[i])]

AddPrefix == <<"a", "d", "d", "_">>
FieldSuffix == <<"_", "f", "i", "e", "l", "d">>

\* re.match(r"^add_(?P<field_name>.+?)_field$", attribute): the group
\* field_name, or None without a match. "$" also matches before one trailing
\* newline and "." matches no newline
re_match_field_name(body) ==
    IF /\ Len(body) > Len(AddPrefix) + Len(FieldSuffix)
       /\ SubSeq(body, 1, Len(AddPrefix)) = AddPrefix
       /\ SubSeq(body, Len(body) - Len(FieldSuffix) + 1, Len(body)) = FieldSuffix
       /\ \A i \in (Len(AddPrefix) + 1)..(Len(body) - Len(FieldSuffix)) : body[i] # "\n"
    THEN PyStr(SubSeq(body, Len(AddPrefix) + 1, Len(body) - Len(FieldSuffix)))
    ELSE None

re_match(cs) ==
    IF cs # <<>> /\ cs[Len(cs)] = "\n" /\ re_match_field_name(SubSeq(cs, 1, Len(cs) - 1)) # None
    THEN re_match_field_name(SubSeq(cs, 1, Len(cs) - 1))
    ELSE re_match_field_name(cs)

\* extended_profile_fields_translations.get(LANGUAGE_CODE, {}).get(field_name, field_name)
translated(config, field_name) ==
    IF \E tr \in config.translations :
          tr.language = config.LANGUAGE_CODE /\ tr.field_name = field_name
    THEN (CHOOSE tr \in config.translations :
              tr.language = config.LANGUAGE_CODE /\ tr.field_name = field_name).label
    ELSE field_name

\* _generate_handler(field_name): the handler, with the field name and the
\* label it closes over
generate_handler(config, field_name) ==
    [t |-> "handler", field_name |-> field_name,
     label |-> capitalize(translated(config, field_name))]

IsListed(config, field_name) ==
    \E i \in 1..Len(config.extended_profile_fields) :
        config.extended_profile_fields[i] = field_name

\* form_field_getattr_patch lines 74-82 with the match of line 76
patch_matched_any_field(config, matched) ==
    IF matched = None THEN Raises("AttributeError", "none")
    ELSE Returns(generate_handler(config, matched.s), "none")

patch_matched(config, matched) ==
    IF matched = None THEN Raises("AttributeError", "none")
    ELSE IF IsListed(config, matched.s) THEN Returns(generate_handler(config, matched.s), "none")
    ELSE Raises("AttributeError", "none")

form_field_getattr_patch(config, name) == patch_matched(config, re_match(name))

\* handler(is_field_required=True): the arguments of
\* form_fields._add_field_with_configurable_select_options
handler_call(h, is_field_required) ==
    [t |-> "field", field_name |-> h.field_name, label |-> h.label,
     is_field_required |-> IF is_field_required = Absent THEN TRUE
                           ELSE is_field_required.b]

Hobby == <<"h", "o", "b", "b", "y">>
Sport == <<"s", "p", "o", "r", "t">>
Movie == <<"m", "o", "v", "i", "e">>
HobbyField == <<"h", "o", "b", "b", "y", "_", "f", "i", "e", "l", "d">>
Deporte == <<"D", "e", "p", "o", "r", "t", "e">>
MiDeporte == <<"m", "i", " ", "D", "e", "p", "o", "r", "t", "e">>

\* attribute names: identifiers around the pattern add_<field>_field
AttributeNames ==
    {pre \o mid \o post :
        pre \in {AddPrefix, <<"a", "d", "d">>, <<"_">> \o AddPrefix, <<>>},
        mid \in {Hobby, Sport, HobbyField, <<"u", "n", "k", "n", "o", "w", "n">>, <<>>},
        post \in {FieldSuffix, <<"_", "f", "i", "e", "l", "d", "s">>, <<"f", "i", "e", "l", "d">>, <<>>}}

ProfileFieldLists == {<<>>, <<Hobby, Sport, Movie>>, <<Sport, HobbyField>>}

Translation(language, field_name, label) ==
    [language |-> language, field_name |-> field_name, label |-> label]

TranslationSets ==
    { {}, {Translation("es", Sport, Deporte)},
      {Translation("es", Sport, MiDeporte), Translation("en", Hobby, Hobby)} }

FormFieldGetattrPatch ==
    /\ patch_out = NotCalled
    /\ patch_out' = form_field_getattr_patch(site_configuration, attribute)
    /\ UNCHANGED <<site_configuration, attribute, field_created>>

\* the caller invokes the handler it got, with or without is_field_required
HandlerCall(is_field_required) ==
    /\ patch_out.raised = "none"
    /\ field_created = NotCalled
    /\ field_created' = [ret |-> handler_call(patch_out.ret, is_field_required),
                         logged |-> "none", raised |-> "none",
                         is_field_required |-> is_field_required]
    /\ UNCHANGED <<site_configuration, attribute, patch_out>>

InitPatch ==
    /\ other_course_settings = [c \in CourseIds |-> Settings(Absent, Absent)]
    /\ StoreIdle
    /\ PureIdle
    /\ MetaIdle /\ ListIdle /\ CertIdle
    /\ SlugIdle /\ SamlIdle /\ TaskIdle
    /\ \E fields \in ProfileFieldLists, translations \in TranslationSets,
          language \in {"es", "en"} :
          site_configuration = [extended_profile_fields |-> fields,
                                translations |-> translations,
                                LANGUAGE_CODE |-> language]
    /\ attribute \in AttributeNames
    /\ patch_out = NotCalled
    /\ field_created = NotCalled

NextPatch ==
    /\ \/ FormFieldGetattrPatch
       \/ \E required \in {Absent, PyBool(TRUE), PyBool(FALSE)} : HandlerCall(required)
    /\ UNCHANGED <<storeVars, hmsVars, isoVars, lookupVars, metaVars, listVars, certVars,
                   slugVars, samlVars, taskVars>>

SpecPatch == InitPatch /\ [][NextPatch]_vars

----------------------------------------------------------------------------
(* Completion progress: the async_post task *)

\* a task that was never queued is "unused"; a queued one runs lines 53-61,
\* which touch no setting, and then the lines below
TaskDone(t) == task_pc[t] \in {"unused", "done", "raised"}

\* line 62: existing_legacy_frontend_setting = getattr(settings, NAME, None)
getattr_or_none(setting) == IF setting = Absent THEN None ELSE setting

TaskGetattr(t) ==
    /\ task_pc[t] = "queued"
    /\ existing_legacy_frontend_setting' =
          [existing_legacy_frontend_setting EXCEPT ![t] = getattr_or_none(legacy_frontend)]
    /\ task_pc' = [task_pc EXCEPT ![t] = "read"]
    /\ UNCHANGED <<legacy_frontend, legacy_frontend_before>>

\* line 63: setattr(settings, NAME, False)
TaskSetattr(t) ==
    /\ task_pc[t] = "read"
    /\ legacy_frontend' = PyBool(FALSE)
    /\ task_pc' = [task_pc EXCEPT ![t] = "set"]
    /\ UNCHANGED <<legacy_frontend_before, existing_legacy_frontend_setting>>

\* lines 64-65: ProgressTabView(...).get(...) returns a response
TaskProgressView(t) ==
    /\ task_pc[t] = "set"
    /\ task_pc' = [task_pc EXCEPT ![t] = "viewed"]
    /\ UNCHANGED <<legacy_frontend, legacy_frontend_before, existing_legacy_frontend_setting>>

\* lines 64-65: the view raises, and the task ends where it is
TaskProgressViewRaises(t) ==
    /\ task_pc[t] = "set"
    /\ task_pc' = [task_pc EXCEPT ![t] = "raised"]
    /\ UNCHANGED <<legacy_frontend, legacy_frontend_before, existing_legacy_frontend_setting>>

\* line 66: setattr(settings, NAME, existing) if existing else delattr(settings, NAME);
\* delattr of a setting that is not defined raises AttributeError
restored(setting, existing) ==
    IF Truthy(existing) THEN [setting |-> existing, raised |-> FALSE]
    ELSE IF setting = Absent THEN [setting |-> Absent, raised |-> TRUE]
    ELSE [setting |-> Absent, raised |-> FALSE]

\* line 66, and lines 67-73 after it when it did not raise
TaskRestore(t) ==
    /\ task_pc[t] = "viewed"
    /\ legacy_frontend' = restored(legacy_frontend, existing_legacy_frontend_setting[t]).setting
    /\ task_pc' = [task_pc EXCEPT ![t] =
          IF restored(legacy_frontend, existing_legacy_frontend_setting[t]).raised
          THEN "raised" ELSE "done"]
    /\ UNCHANGED <<legacy_frontend_before, existing_legacy_frontend_setting>>

InitTask ==
    /\ other_course_settings = [c \in CourseIds |-> Settings(Absent, Absent)]
    /\ StoreIdle
    /\ PureIdle
    /\ MetaIdle /\ ListIdle /\ CertIdle
    /\ SlugIdle /\ SamlIdle /\ PatchIdle
    /\ legacy_frontend \in {Absent, PyBool(TRUE), PyBool(FALSE)}
    /\ legacy_frontend_before = legacy_frontend
    /\ task_pc \in [AsyncTasks -> {"unused", "queued"}]
    /\ existing_legacy_frontend_setting = [t \in AsyncTasks |-> None]

NextTask ==
    /\ \E t \in AsyncTasks :
          \/ TaskGetattr(t)
          \/ TaskSetattr(t)
          \/ TaskProgressView(t)
          \/ TaskProgressViewRaises(t)
          \/ TaskRestore(t)
    /\ UNCHANGED <<storeVars, hmsVars, isoVars, lookupVars, metaVars, listVars, certVars,
                   slugVars, samlVars, patchVars>>

SpecTask == InitTask /\ [][NextTask]_vars

----------------------------------------------------------------------------
(* Claims on the program metadata accessor *)

C2_UpdateThenGetRoundTrip ==
    [][\A w \in Workers :
          UpdatePersist(w) =>
              get_program_metadata(other_course_settings'[call[w].course_id])
                  = PyDict(call[w].program_data)]_vars

\* a get that follows two updates of one course: the first wrote
\* type_of_activity, the second did not, and the get returns the second mapping
C2_Witness ==
    /\ Len(returned) = 2
    /\ returned[1].call.course_id = returned[2].call.course_id
    /\ returned[1].call.program_data = ProgramDataB
    /\ returned[2].call.program_data = ProgramDataA
    /\ get_ret.course_id = returned[2].call.course_id
    /\ get_ret.out = Returns(PyDict(ProgramDataA), "none")
    /\ get_ret.stored = other_course_settings[get_ret.course_id]["program_metadata_v1"]

\* the calls that returned for course c, in order
ReturnedFor(c) == SelectSeq(returned, LAMBDA r : r.call.course_id = c)

\* C3: under every interleaving of the load / overwrite / persist steps of
\* concurrent update_program_metadata calls, the stored program_metadata_v1 of
\* a course is exactly the mapping of the call that persisted last (never a
\* mix of two mappings, never the value from before), every call that
\* started can take its next step, and every call persisted exactly once.
C3_LastWriteWins ==
    /\ \A c \in CourseIds :
          ReturnedFor(c) # <<>> =>
              other_course_settings[c]["program_metadata_v1"]
                  = PyDict(ReturnedFor(c)[Len(ReturnedFor(c))].call.program_data)
    /\ \A w \in Workers :
          /\ pc[w] = "loaded" => ENABLED UpdateAssign(w)
          /\ pc[w] = "assigned" => ENABLED UpdatePersist(w)
    /\ Len(update_item_calls) = Len(returned)

\* two calls for one course overlapped (the second was running when the first
\* persisted), with mappings A and B, and both have returned
C3_Witness ==
    /\ Len(returned) = 2
    /\ returned[1].overlapped
    /\ returned[1].call.course_id = returned[2].call.course_id
    /\ returned[1].call.program_data = ProgramDataA
    /\ returned[2].call.program_data = ProgramDataB
    /\ other_course_settings[returned[2].call.course_id]["program_metadata_v1"]
           = PyDict(ProgramDataB)

----------------------------------------------------------------------------
(* Claims on hms_to_int *)

\* a str int() accepts, and the positions of its colons
IsInteger(cs) == py_int(cs).exc = "none"
Colons(cs) == {i \in 1..Len(cs) : cs[i] = ":"}

\* r is num/den rounded to the nearest integer, a tie going to the even one
IsNearestTiesEven(r, num, den) ==
    LET d == IF den * r >= num THEN den * r - num ELSE num - den * r
    IN  \/ 2 * d < den
        \/ 2 * d = den /\ r % 2 = 0

HmsExamples ==
    { <<(<<"2", ":", "3", "1">>), 3>>, <<(<<"1", ":", "2", "9">>), 1>>,
      <<(<<"0", ":", "4", "5">>), 1>>, <<(<<"2", ":", "3", "0">>), 2>>,
      <<(<<"1", ":", "3", "0">>), 2>>, <<(<<"2", ":", "9", "9">>), 2>>,
      <<(<<"2", ":", "-", "5">>), 2>>, <<(<<"5">>), 5>>, <<(<<"0">>), 0>> }

----------------------------------------------------------------------------
(* Claims on convert_to_isoformat *)

\* cs is a timestamp YYYY-MM-DDTHH:MM:SSZ: twenty characters, digits around
\* the separators, naming a day of the calendar and a time of the day
IsZTimestamp(cs) ==
    /\ Len(cs) = 20
    /\ \A i \in {1, 2, 3, 4, 6, 7, 9, 10, 12, 13, 15, 16, 18, 19} : cs[i] \in DigitChars
    /\ cs[5] = "-" /\ cs[8] = "-" /\ cs[11] = "T"
    /\ cs[14] = ":" /\ cs[17] = ":" /\ cs[20] = "Z"
    /\ LET num(i) == 10 * DigitVal(cs[i]) + DigitVal(cs[i + 1])
           year == 100 * num(1) + num(3)
       IN  /\ year >= 1
           /\ num(6) \in 1..12
           /\ num(9) >= 1 /\ num(9) <= DaysInMonth(year, num(6))
           /\ num(12) <= 23 /\ num(15) <= 59 /\ num(18) <= 59

----------------------------------------------------------------------------
(* Claims on get_program_lookup_representation *)

LookupCalled == lookup_out # NoLookup
LookupReturned == lookup_out.out.raised = "none"
LookupRecord == lookup_out.out.ret.d
ApiData == course_api_data.d

\* what the store holds under program_metadata_v1 for the record's course
StoredFor(api) == other_course_settings[api["course_id"].s]["program_metadata_v1"]
StoredMapping(api) == IF StoredFor(api) = Absent THEN EmptyMeta ELSE StoredFor(api).d

\* the source timestamp is missing, null, empty or not parsable
NoDate(v) == v \in {Absent, None, PyStr(<<>>)} \/ convert_to_isoformat(v).ret = None

\* C7: in every record produced, the Hijri start (end) date is None exactly
\* when the Gregorian start (end) date is None, which is the case for a null,
\* empty or unparsable source timestamp; the Hijri conversion is never
\* invoked on None.
C7_HijriNoneIffGregorianNone ==
    /\ LookupCalled => \A arg \in lookup_out.hijri_calls : arg.t = "str" /\ arg.s # <<>>
    /\ (LookupCalled /\ LookupReturned) =>
          /\ LookupRecord["data_start_hijri"] = None <=> LookupRecord["data_start"] = None
          /\ LookupRecord["date_end_hijri"] = None <=> LookupRecord["date_end"] = None
          /\ NoDate(ApiData["start"]) => LookupRecord["data_start_hijri"] = None
          /\ NoDate(ApiData["end"]) => LookupRecord["date_end_hijri"] = None
          /\ lookup_out.hijri_calls =
                {LookupRecord[k] : k \in {"data_start", "date_end"}} \ {None}

\* start is null and end is a date: only the end date was converted
C7_Witness ==
    /\ LookupCalled /\ LookupReturned
    /\ ApiData["start"] = None
    /\ LookupRecord["data_start"] = None /\ LookupRecord["data_start_hijri"] = None
    /\ LookupRecord["date_end"] # None /\ LookupRecord["date_end_hijri"] # None
    /\ lookup_out.hijri_calls = {LookupRecord["date_end"]}

\* C8: when the stored type_of_activity is not a key of the activity table,
\* or is missing, the record's type_of_activity is None and nothing is
\* raised, and type_of_activity_id is the stored code (None when missing).
C8_UnknownActivityGivesNone ==
    (LookupCalled /\ ApiData["course_id"] # Absent /\ StoredFor(ApiData).t \in {"absent", "dict"}) =>
        LET code == StoredMapping(ApiData)["type_of_activity"]
            known == code.t = "int" /\ code.i \in DOMAIN TYPES_OF_ACTIVITY_MAPPING
        IN  ~known =>
                /\ LookupReturned
                /\ LookupRecord["type_of_activity"] = None
                /\ LookupRecord["type_of_activity_id"] = (IF code = Absent THEN None ELSE code)

\* the stored code 1 is in no table: label None, id 1
C8_Witness ==
    /\ LookupCalled /\ LookupReturned
    /\ StoredFor(ApiData) = PyDict(ProgramDataC)
    /\ LookupRecord["type_of_activity"] = None
    /\ LookupRecord["type_of_activity_id"] = PyInt(1)

\* C9: every record get_program_lookup_representation returns holds the date
\* fields under the names date_start, date_start_hijri, date_end and
\* date_end_hijri, and the other thirteen fields.
C9_RecordHasSerializerNames ==
    (LookupCalled /\ LookupReturned) =>
        \A k \in {"date_start", "date_start_hijri", "date_end", "date_end_hijri",
                  "program_name", "program_code", "type_of_activity", "type_of_activity_id",
                  "mandatory", "program_approve", "code", "duration", "unit",
                  "training_location", "trainer_type"} :
            LookupRecord[k] # Absent

----------------------------------------------------------------------------
(* Claims on the program metadata endpoint *)

StoredMetadata(store, course_id) == store[course_id]["program_metadata_v1"]

\* the caller is authenticated and holds studio write access for the course
Authorized(request) ==
    IsAuthenticated(request.user) /\ HasStudioWriteAccess(request.user, request.course_id)

FeatureEnabled == FEATURES = PyBool(TRUE)

\* the step serves an authorized request of this method for a course of the store
ServesAuthorized(method) ==
    /\ meta_request'.method = method
    /\ Authorized(meta_request')
    /\ meta_request'.course_id \in CourseIds

\* a record in the form the schema describes: trainer_type 10, an integer
\* type_of_activity, both flags "00" or "01", a trimmed non-blank program_code
\* of at most 64 characters
IsProgramMetadataRecord(d) ==
    /\ d["trainer_type"] = PyInt(TrainerTypeDefault)
    /\ d["type_of_activity"].t = "int"
    /\ d["mandatory"] \in ValidFlags
    /\ d["program_approve"] \in ValidFlags
    /\ d["program_code"].t = "str"
    /\ d["program_code"].s # <<>>
    /\ Strip(d["program_code"].s) = d["program_code"].s
    /\ Len(d["program_code"].s) <= ProgramCodeMaxLength

NothingStored(stored) == stored \in {Absent, None, PyDict(EmptyMeta)}

GetRefusals(stored, response) ==
    /\ NothingStored(stored) =>
          /\ response.status = 404
          /\ response.body = ErrorBody("Program metadata not found")
    /\ (~NothingStored(stored) /\ ~ProgramsMetadataSerializer(stored).valid) =>
          /\ response.status = 400
          /\ \E k \in ErrorKeys : response.body.errors[k] # "ok"

GetServesStored(stored) == ~NothingStored(stored) /\ ProgramsMetadataSerializer(stored).valid

C12_FeatureDisabledGives501 ==
    [][(Authorized(meta_request') /\ FEATURES \in {Absent, PyBool(FALSE)}) =>
          /\ meta_response'.status = 501
          /\ meta_response'.body = ErrorBody(FeatureName)
          /\ meta_response'.calls = <<>>
          /\ other_course_settings' = other_course_settings]_vars

\* an authorized POST of a valid body while the flag is missing: 501, and the
\* course still holds what it held
C12_Witness ==
    /\ meta_request.method = "POST" /\ Authorized(meta_request)
    /\ meta_request.data = PyDict(BaseBody)
    /\ FEATURES = Absent
    /\ meta_response.status = 501
    /\ StoredMetadata(other_course_settings, <<"c", "1">>) = Absent

\* C13: an unauthenticated caller gets 401 and an authenticated caller without
\* studio write access for the course gets 403; in both cases no function of
\* the content store is called, the body carries no record and the store is
\* unchanged, so only an authorized caller is ever served.
C13_OnlyAuthorizedServed ==
    [][/\ ~IsAuthenticated(meta_request'.user) => meta_response'.status = 401
       /\ (IsAuthenticated(meta_request'.user) /\ ~Authorized(meta_request')) =>
             meta_response'.status = 403
       /\ ~Authorized(meta_request') =>
             /\ meta_response'.calls = <<>>
             /\ meta_response'.body.record = <<>>
             /\ other_course_settings' = other_course_settings
       /\ meta_response'.status \in {200, 201, 400, 404} => Authorized(meta_request')]_vars

\* user 8, who may write the second course only, posts a valid body to the
\* first one with the feature enabled: 403
C13_Witness ==
    /\ meta_request.method = "POST" /\ meta_request.user = 8
    /\ meta_request.course_id = <<"c", "1">>
    /\ meta_request.data = PyDict(BaseBody)
    /\ FeatureEnabled
    /\ meta_response.status = 403
    /\ meta_response.calls = <<>>

StrictField(k, v) ==
    CASE k = "type_of_activity" -> v.t = "int"
      [] k = "program_code" ->
            v.t = "str" /\ Strip(v.s) # <<>> /\ Len(v.s) <= ProgramCodeMaxLength
      [] OTHER -> v \in ValidFlags

\* the conditions of the schema on the body as the fields read it: a text
\* that int() accepts once a trailing ".0" is removed is an integer, a text
\* is taken trimmed, and a number given for a text is taken as its digits
CoercedField(k, v) ==
    CASE k = "type_of_activity" ->
            v.t = "int" \/ (v.t = "str" /\ py_int(re_decimal_sub(v.s)).exc = "none")
      [] k = "program_code" ->
            /\ v.t \in {"str", "int"}
            /\ Strip(py_str(v)) # <<>>
            /\ Len(Strip(py_str(v))) <= ProgramCodeMaxLength
      [] OTHER -> v.t = "str" /\ PyStr(Strip(v.s)) \in ValidFlags

PostRejected(response) ==
    /\ response.status = 400
    /\ response.calls = <<>>
    /\ other_course_settings' = other_course_settings

----------------------------------------------------------------------------
(* Claims on the program lookup endpoint *)

ListServed == list_request # NoListRequest

\* the caller is authenticated and holds a role that lets it look programs up
LookupAuthorized ==
    /\ IsAuthenticated(list_request.user)
    /\ ProgramsLookupPermission(list_request.user, list_request.org, platform.lookup_roles)

NationalIdGiven == list_request.national_id \notin {Absent, PyStr(<<>>)}

\* 10 to 15 characters, every one a digit
NationalIdWellFormed ==
    /\ NationalIdGiven
    /\ Len(list_request.national_id.s) \in MinNationalIdLength..MaxNationalIdLength
    /\ \A i \in 1..Len(list_request.national_id.s) :
          list_request.national_id.s[i] \in DigitChars

ResolvedUser == user_by_national_id(list_request.national_id.s, platform.extrainfo)

\* the courses the platform lists for a user in which that user is enrolled
EnrolledVisible(user) ==
    SelectSeq(platform.visible[user], LAMBDA c : <<user, c>> \in platform.enrolled)

NoProgramBody ==
    ListBody("NO_PROGRAM_FOR_NATIONAL_ID", list_request.national_id, <<>>)

\* C17: for a permitted GET with a well-formed national_id, the response is
\* 404 with error NO_PROGRAM_FOR_NATIONAL_ID and the national id in the message
\* when the id resolves to no user or no record is assembled, and otherwise 200
\* with one record per course assembled.
C17_EmptyGives404ElseList ==
    (ListServed /\ LookupAuthorized /\ NationalIdWellFormed) =>
        IF ResolvedUser = 0 \/ EnrolledVisible(ResolvedUser) = <<>>
        THEN list_response.status = 404 /\ list_response.body = NoProgramBody
        ELSE /\ list_response.status = 200
             /\ Len(list_response.body.results) = Len(EnrolledVisible(ResolvedUser))

----------------------------------------------------------------------------
(* Claims on the external certificate record *)

CertificateCalled == certificate_out # NotCalled
CertificateBuilt == CertificateCalled /\ certificate_out.raised = "none"
CertificateRecord == certificate_out.ret.d

\* the day before a date
PrevDay(date) ==
    IF date[3] > 1 THEN <<date[1], date[2], date[3] - 1>>
    ELSE IF date[2] > 1 THEN <<date[1], date[2] - 1, DaysInMonth(date[1], date[2] - 1)>>
    ELSE <<date[1] - 1, 12, 31>>

\* a 29 February lies after the date and not after the same day of the next year
LeapDayWithinYear(date) ==
    \/ date[2] <= 2 /\ IsLeap(date[1])
    \/ date[2] >= 3 /\ IsLeap(date[1] + 1)

\* the date 365 days after a date
Plus365Days(date) ==
    IF date[2] = 2 /\ date[3] = 29 THEN <<date[1] + 1, 2, 28>>
    ELSE IF LeapDayWithinYear(date) THEN PrevDay(<<date[1] + 1, date[2], date[3]>>)
    ELSE <<date[1] + 1, date[2], date[3]>>

IsoDate(date) == PyStr(isoformat(date[1], date[2], date[3]))

\* C19: every record built by _generate_external_certificate_data has
\* created_at the date of the event and expiration_date that date plus 365
\* days.
C19_ExpirationIsCreatedPlus365Days ==
    CertificateBuilt =>
        /\ CertificateRecord["created_at"] = IsoDate(certificate_event.time)
        /\ CertificateRecord["expiration_date"] =
              IsoDate(Plus365Days(certificate_event.time))

\* the course of the certificate has no group code, the setting being
\* undefined or lacking the course
CourseUnmapped == group_codes(certificate_settings)[certificate_event.course_key] = Absent

\* C20: whenever the course of the certificate has no entry in
\* EXTERNAL_CERTIFICATES_GROUP_CODES, or the setting is not defined, the call
\* raises KeyError and returns no record, whoever the user of the certificate is.
C20_UnmappedCourseRaisesKeyError ==
    (CertificateCalled /\ CourseUnmapped
        /\ certificate_event.user_id \in DOMAIN certificate_settings.users) =>
        /\ certificate_out.raised = "KeyError"
        /\ certificate_out.ret = Absent
----------------------------------------------------------------------------
(* Claims on the SAML bulk template *)

SlugCalled == slug_out # NotCalled

\* the text before the last "." of cs: all of cs when it has no "."
RECURSIVE BeforeLastDot(_)
BeforeLastDot(cs) ==
    IF cs = <<>> THEN <<>>
    ELSE IF cs[Len(cs)] = "." THEN SubSeq(cs, 1, Len(cs) - 1)
    ELSE BeforeLastDot(SubSeq(cs, 1, Len(cs) - 1))

HasDot(cs) == \E i \in 1..Len(cs) : cs[i] = "."

DotsToHyphens(cs) == [i \in 1..Len(cs) |-> IF cs[i] = "." THEN "-" ELSE cs[i]]

\* C21: generate_slug_for_site returns, for a domain with a dot, the labels
\* before the last dot joined with "-" (the last label dropped), then "-" and
\* the slug_suffix; for a domain without a dot, the whole domain, "-" and the
\* slug_suffix
C21_SlugDropsLastLabel ==
    SlugCalled =>
        /\ slug_out.raised = "none"
        /\ slug_out.ret =
              PyStr((IF HasDot(site_domain) THEN DotsToHyphens(BeforeLastDot(site_domain))
                                            ELSE site_domain)
                    \o <<"-">> \o slug_suffix)

C21_Witness ==
    /\ site_domain = BcFuturexSa /\ slug_suffix = LmsSso
    /\ slug_out = Returns(PyStr(<<"b", "c", "-", "f", "u", "t", "u", "r", "e", "x",
                                  "-", "l", "m", "s", "-", "s", "s", "o">>), "none")
SamlCalls == saml_db.calls

IsConfigurationCall(c) == c.op = "SAMLConfiguration.update_or_create"

IsProviderCall(c) == c.op = "SAMLProviderConfig.update_or_create"

GeneratedSlug(site) ==
    IF site = 1
    THEN <<"b", "c", "-", "f", "u", "t", "u", "r", "e", "x", "-", "l", "m", "s", "-", "s", "s", "o">>
    ELSE <<"a", "b", "c", "-", "e", "x", "a", "m", "p", "l", "e", "-", "l", "m", "s", "-", "s", "s", "o">>

\* the provider call at position i follows the SAMLConfiguration call of the
\* same site, and the provider row points to the row that call returned
PairedWithOwnConfiguration(i) ==
    /\ i > 1
    /\ IsConfigurationCall(SamlCalls[i - 1])
    /\ SamlCalls[i - 1].site = SamlCalls[i].site
    /\ SamlCalls[i].slug = GeneratedSlug(SamlCalls[i].site)
    /\ LET provider == saml_db.saml_provider_config[SamlCalls[i].obj]
       IN  /\ provider.site = SamlCalls[i].site
           /\ provider.slug = GeneratedSlug(SamlCalls[i].site)
           /\ provider.saml_configuration = SamlCalls[i - 1].obj
           /\ saml_db.saml_configuration[provider.saml_configuration].site = provider.site

\* C22: apply_to_sites takes the sites in the order given and, for each one,
\* creates or updates the SAMLConfiguration and then the SAMLProviderConfig;
\* the provider config has the site's generated slug and points to the
\* SAMLConfiguration of the same site written just before it
C22_ConfigurationThenProviderPerSite ==
    /\ \A i \in 1..Len(SamlCalls) : IsProviderCall(SamlCalls[i]) => PairedWithOwnConfiguration(i)
    /\ saml_op.op = "apply_to_sites" =>
          /\ Len(SamlCalls) = 2 * Len(saml_op.sites)
          /\ \A k \in 1..Len(saml_op.sites) :
                /\ IsConfigurationCall(SamlCalls[2 * k - 1])
                /\ SamlCalls[2 * k - 1].site = saml_op.sites[k]
                /\ IsProviderCall(SamlCalls[2 * k])
                /\ SamlCalls[2 * k].site = saml_op.sites[k]

C22_Witness ==
    /\ saml_op.op = "apply_to_sites" /\ saml_op.sites = <<1, 2>>
    /\ Len(SamlCalls) = 4
    /\ saml_db.saml_provider_config[SamlCalls[4].obj].saml_configuration = 2
    /\ saml_db.saml_configuration[2].site = 2
SamlStepTaken(op) == saml_ops' = saml_ops + 1 /\ saml_op'.op = op

ConfigurationCallsFor(db, site) ==
    {i \in 1..Len(db.calls) : IsConfigurationCall(db.calls[i]) /\ db.calls[i].site = site}

ProviderCallsFor(db, site) ==
    {i \in 1..Len(db.calls) : IsProviderCall(db.calls[i]) /\ db.calls[i].site = site}

UsedSlug(db, site) ==
    IF db.template.use_default_saml_configuration_slug THEN DefaultSlug
    ELSE GeneratedSlug(site)

\* site has a SAMLConfiguration and a SAMLProviderConfig carrying the values
\* of db's template, the provider config pointing to that SAMLConfiguration
ConfiguredFromTemplate(db, site) ==
    \E c \in 1..Len(db.saml_configuration), p \in 1..Len(db.saml_provider_config) :
        /\ db.saml_configuration[c] =
              [site |-> site, slug |-> UsedSlug(db, site), enabled |-> TRUE,
               changed_by |-> db.template.changed_by,
               entity_id |-> HttpsSaml \o SiteDomain(site),
               other_config_str |-> db.template.other_config_str, is_public |-> TRUE]
        /\ db.saml_provider_config[p] =
              [site |-> site, slug |-> GeneratedSlug(site), enabled |-> TRUE,
               name |-> db.template.name, changed_by |-> db.template.changed_by,
               archived |-> db.template.archived, saml_configuration |-> c]

\* C23: save() persists the template first, then reads the related sites and
\* applies the template once to each of them: afterwards every related site
\* has a SAMLConfiguration and a SAMLProviderConfig with the saved values,
\* and with no related site no configuration is touched
C23_SavePersistsThenAppliesToRelatedSites ==
    [][SamlStepTaken("save") =>
          /\ saml_db'.sites = saml_db.sites
          /\ Len(saml_db'.calls) = 2 + 2 * Cardinality(saml_db.sites)
          /\ saml_db'.calls[1].op = "save"
          /\ saml_db'.calls[2].op = "sites.all"
          /\ saml_db'.calls[2].pk_set = saml_db.sites
          /\ \A site \in Sites :
                /\ Cardinality(ConfigurationCallsFor(saml_db', site)) =
                      (IF site \in saml_db.sites THEN 1 ELSE 0)
                /\ Cardinality(ProviderCallsFor(saml_db', site)) =
                      (IF site \in saml_db.sites THEN 1 ELSE 0)
                /\ site \in saml_db.sites => ConfiguredFromTemplate(saml_db', site)
          /\ saml_db.sites = {} =>
                /\ saml_db'.saml_configuration = saml_db.saml_configuration
                /\ saml_db'.saml_provider_config = saml_db.saml_provider_config]_vars

C23_Witness ==
    /\ saml_op.op = "save" /\ saml_db.sites = Sites
    /\ saml_db.template.name = "B"
    /\ \A site \in Sites : ConfiguredFromTemplate(saml_db, site)

SiteQueries(db) == {i \in 1..Len(db.calls) : db.calls[i].op = "Site.objects.filter"}

Signals(db, action) ==
    {i \in 1..Len(db.calls) : db.calls[i].op = "m2m_changed" /\ db.calls[i].action = action}

\* C24: a change of the sites relation applies the template on post_add only,
\* to the sites of pk_set only; on the remove and clear signals, and on
\* pre_add, the receiver queries no site and writes no configuration, so the
\* configurations of removed sites stay as they were
C24_OnlyPostAddApplies ==
    [][/\ SamlStepTaken("add") =>
             /\ \A i \in SiteQueries(saml_db') :
                   /\ i - 1 \in Signals(saml_db', "post_add")
                   /\ saml_db'.calls[i].pk_set = saml_db'.calls[i - 1].pk_set
             /\ \A i \in Signals(saml_db', "post_add") :
                   /\ saml_db'.calls[i].pk_set = saml_op'.pk_set \ saml_db.sites
                   /\ i + 1 \in SiteQueries(saml_db')
             /\ \A i \in Signals(saml_db', "pre_add") :
                   saml_db'.calls[i + 1].op = "m2m_changed"
             /\ \A site \in Sites :
                   IF site \in saml_op'.pk_set \ saml_db.sites
                   THEN /\ Cardinality(ConfigurationCallsFor(saml_db', site)) = 1
                        /\ Cardinality(ProviderCallsFor(saml_db', site)) = 1
                   ELSE /\ ConfigurationCallsFor(saml_db', site) = {}
                        /\ ProviderCallsFor(saml_db', site) = {}
       /\ SamlStepTaken("remove") \/ SamlStepTaken("clear") =>
             /\ SiteQueries(saml_db') = {}
             /\ \A site \in Sites :
                   /\ ConfigurationCallsFor(saml_db', site) = {}
                   /\ ProviderCallsFor(saml_db', site) = {}
             /\ saml_db'.saml_configuration = saml_db.saml_configuration
             /\ saml_db'.saml_provider_config = saml_db.saml_provider_config
             /\ saml_db'.template = saml_db.template]_vars

C24_Witness ==
    /\ saml_op.op = "remove" /\ saml_op.pk_set = {1}
    /\ 1 \notin saml_db.sites
    /\ Signals(saml_db, "pre_remove") = {1} /\ Signals(saml_db, "post_remove") = {2}
    /\ \E p \in 1..Len(saml_db.saml_provider_config) : saml_db.saml_provider_config[p].site = 1
RowsOfSite(rows, site) == SelectSeq(rows, LAMBDA row : row.site = site)

ConfigurationsOfSite(db, site) ==
    <<RowsOfSite(db.saml_configuration, site), RowsOfSite(db.saml_provider_config, site)>>

\* the submitted form holds the values the template already has
FormChangesNoField ==
    [saml_db'.template EXCEPT !.changed_by = saml_db.template.changed_by] = saml_db.template

\* C28: in the admin, a submission that removes a site and changes no field
\* does not update the configurations of the removed site; one that also
\* changes fields still updates them with the new values, save() running
\* before the removal is applied. Stated for templates that are not archived
C28_RemovalAloneLeavesConfigurations ==
    [][SamlStepTaken("admin") /\ ~saml_db'.template.archived =>
          \A site \in saml_db.sites \ saml_db'.sites :
              IF FormChangesNoField
              THEN ConfigurationsOfSite(saml_db', site) = ConfigurationsOfSite(saml_db, site)
              ELSE ConfiguredFromTemplate(saml_db', site)]_vars

TemplateApplied(db, site) ==
    /\ \E c \in 1..Len(db.saml_configuration) :
          /\ db.saml_configuration[c].site = site
          /\ db.saml_configuration[c].slug = UsedSlug(db, site)
    /\ \E p \in 1..Len(db.saml_provider_config) :
          /\ db.saml_provider_config[p].site = site
          /\ db.saml_provider_config[p].slug = GeneratedSlug(site)

\* C29: applying the unchanged template again to a site it was applied to
\* creates no further row: with a SAMLConfiguration and a SAMLProviderConfig
\* of (site, slug) in place, apply_to_sites leaves as many rows as before,
\* and leaves the tables as they were when the rows already carry the
\* template's values
C29_RepeatedApplicationAddsNoRow ==
    [][/\ SamlStepTaken("apply_to_sites")
       /\ \A k \in 1..Len(saml_op'.sites) : TemplateApplied(saml_db, saml_op'.sites[k])
       =>
       /\ Len(saml_db'.saml_configuration) = Len(saml_db.saml_configuration)
       /\ Len(saml_db'.saml_provider_config) = Len(saml_db.saml_provider_config)
       /\ (\A k \in 1..Len(saml_op'.sites) :
               ConfiguredFromTemplate(saml_db, saml_op'.sites[k]))
          => /\ saml_db'.saml_configuration = saml_db.saml_configuration
             /\ saml_db'.saml_provider_config = saml_db.saml_provider_config]_vars
----------------------------------------------------------------------------
(* Claims on the registration form field patch *)

PatchCalled == patch_out # NotCalled

\* the fields of extended_profile_fields that attribute names as add_<field>_field
NamedFields ==
    {i \in 1..Len(site_configuration.extended_profile_fields) :
        attribute = <<"a", "d", "d", "_">> \o site_configuration.extended_profile_fields[i]
                    \o <<"_", "f", "i", "e", "l", "d">>}

ConfiguredLabels(field_name) ==
    {tr.label : tr \in {x \in site_configuration.translations :
                           /\ x.language = site_configuration.LANGUAGE_CODE
                           /\ x.field_name = field_name}}

\* label is text with its first character in upper case and the others in lower case
IsCapitalized(label, text) ==
    /\ Len(label) = Len(text)
    /\ \A i \in 1..Len(text) :
          \/ label[i] = text[i] /\ ~(\E k \in 1..26 : text[i] = (IF i = 1 THEN LowerCase ELSE UpperCase)[k])
          \/ \E k \in 1..26 : /\ text[i] = (IF i = 1 THEN LowerCase ELSE UpperCase)[k]
                              /\ label[i] = (IF i = 1 THEN UpperCase ELSE LowerCase)[k]

\* C25: form_field_getattr_patch returns a handler exactly when the name is
\* add_<field>_field for a field listed in extended_profile_fields, and raises
\* AttributeError for every other name; the handler creates the field with
\* the field name, the capitalized label (the translation for the request
\* language when there is one, else the field name) and is_field_required,
\* True when not given
C25_HandlerIffListedField ==
    /\ PatchCalled =>
          IF NamedFields = {}
          THEN patch_out = Raises("AttributeError", "none")
          ELSE /\ patch_out.raised = "none"
               /\ patch_out.ret.t = "handler"
               /\ \A i \in NamedFields :
                     patch_out.ret.field_name = site_configuration.extended_profile_fields[i]
    /\ field_created # NotCalled =>
          /\ PatchCalled /\ NamedFields # {}
          /\ field_created.ret.field_name = patch_out.ret.field_name
          /\ IF ConfiguredLabels(patch_out.ret.field_name) = {}
             THEN IsCapitalized(field_created.ret.label, patch_out.ret.field_name)
             ELSE \A label \in ConfiguredLabels(patch_out.ret.field_name) :
                      IsCapitalized(field_created.ret.label, label)
          /\ field_created.ret.is_field_required =
                (IF field_created.is_field_required = Absent THEN TRUE
                 ELSE field_created.is_field_required = PyBool(TRUE))

\* a handler call without is_field_required, for a translated field
C25_Witness ==
    /\ attribute = <<"a", "d", "d", "_", "s", "p", "o", "r", "t", "_", "f", "i", "e", "l", "d">>
    /\ site_configuration.LANGUAGE_CODE = "es"
    /\ field_created # NotCalled
    /\ field_created.is_field_required = Absent
    /\ field_created.ret = [t |-> "field", field_name |-> Sport,
                            label |-> <<"M", "i", " ", "d", "e", "p", "o", "r", "t", "e">>,
                            is_field_required |-> TRUE]
----------------------------------------------------------------------------
(* Claims on the async_post task *)

TasksRan == \E t \in AsyncTasks : task_pc[t] # "unused"

InProgressView(t) == task_pc[t] \in {"set", "viewed"}

\* C30: once every async_post task has finished, USE_LEARNING_LEGACY_FRONTEND
\* is as it was before the first one started (the same value, or not
\* defined), and it differs from that state only while some task is between
\* setting it to False and restoring it
C30_SettingRestoredAfterTasks ==
    /\ (TasksRan /\ \A t \in AsyncTasks : TaskDone(t)) =>
          legacy_frontend = legacy_frontend_before
    /\ legacy_frontend # legacy_frontend_before =>
          legacy_frontend = PyBool(FALSE) /\ \E t \in AsyncTasks : InProgressView(t)
----------------------------------------------------------------------------
(* Claims on trainer_type and on the write of update_program_metadata *)

LookupOf(course_id) ==
    get_program_lookup_representation(ApiRecord(PyStr(course_id), None, None, None, None),
                                      other_course_settings).out

HasTrainerTypeTen(out) == out.raised = "none" => out.ret.d["trainer_type"] = PyInt(10)

\* C26: trainer_type is 10 everywhere: the record a successful POST stores has
\* trainer_type 10 whatever the body submitted, every 200 response to GET
\* reports 10, and the lookup record assembled for a course has 10 whatever
\* the course stores
C26_TrainerTypeIsTen ==
    /\ (meta_request.method = "POST" /\ meta_response.status = 201) =>
          StoredMetadata(other_course_settings, meta_request.course_id).d["trainer_type"]
              = PyInt(10)
    /\ (meta_request.method = "GET" /\ meta_response.status = 200) =>
          meta_response.body.record["trainer_type"] = PyInt(10)
    /\ \A c \in CourseIds : HasTrainerTypeTen(LookupOf(c))

C26_Witness ==
    /\ meta_request.method = "POST" /\ meta_response.status = 201
    /\ meta_request.data.d["trainer_type"] = PyInt(99)
    /\ StoredMetadata(other_course_settings, meta_request.course_id).d["trainer_type"] = PyInt(10)
    /\ LookupOf(meta_request.course_id).raised = "none"

OtherSettingsKeys == SettingsKeys \ {"program_metadata_v1"}

StoreUntouched ==
    /\ other_course_settings' = other_course_settings
    /\ update_item_calls' = update_item_calls

\* C27: update_program_metadata(c, d, actor) persists once, with one
\* update_item call on the block of course c attributed to actor, and that
\* write changes the program_metadata_v1 entry of course c only: the other
\* keys of c and the settings of every other course keep their values; the
\* steps before the write change nothing in the store
C27_WritesOnlyProgramMetadataOfCourse ==
    [][\A w \in Workers :
          /\ (pc[w] = "assigned" /\ pc'[w] = "idle") =>
                /\ Len(update_item_calls') = Len(update_item_calls) + 1
                /\ update_item_calls'[Len(update_item_calls')].user_id = call[w].user_id
                /\ update_item_calls'[Len(update_item_calls')].course_block.course_id
                      = call[w].course_id
                /\ \A i \in 1..Len(update_item_calls) :
                      update_item_calls'[i] = update_item_calls[i]
                /\ other_course_settings'[call[w].course_id]["program_metadata_v1"]
                      = PyDict(call[w].program_data)
                /\ \A k \in OtherSettingsKeys :
                      other_course_settings'[call[w].course_id][k]
                          = other_course_settings[call[w].course_id][k]
                /\ \A c \in CourseIds \ {call[w].course_id} :
                      other_course_settings'[c] = other_course_settings[c]
          /\ (pc[w] # "assigned" /\ pc'[w] # pc[w]) => StoreUntouched]_vars

C27_Witness ==
    /\ Len(update_item_calls) = 1
    /\ Len(returned) = 1
    /\ returned[1].call.course_id = <<"c", "1">>
    /\ returned[1].call.program_data = ProgramDataB
    /\ update_item_calls[1].user_id = returned[1].call.user_id
    /\ other_course_settings[<<"c", "1">>] = Settings(PyDict(ProgramDataB), PyStr(<<"x">>))

====
